---- MODULE Spec2Model ----
(***************************************************************************)
(* Model of the Kobe workflow builder's execution engine (src/src/App.js): *)
(* the variable resolver resolveVariables, node validation validateNode,   *)
(* node execution executeNode, and the traversal simulateWorkflow /        *)
(* processConnectedNodes.                                                  *)
(*                                                                         *)
(* Strings are sequences of tokens.  A token is an atomic piece of text    *)
(* ("{", "}", ".", a node id, a field name, a word); no token is the       *)
(* concatenation of other tokens, so two token sequences are equal exactly *)
(* when the texts they stand for are equal.                                *)
(***************************************************************************)
EXTENDS Integers, Sequences, FiniteSets, TLC

\* ------------------------------------------------------------------------
\* JavaScript values, as far as the engine looks at them
\* ------------------------------------------------------------------------

\* A string value; s is its text.
Str(s) == [t |-> "str", s |-> s]

\* undefined (a configuration field that is not set).
Undef == [t |-> "undef", s |-> <<>>]

\* A boolean; s is the text String(b) yields.
Bool(b) == [t |-> "bool", s |-> IF b THEN <<"true">> ELSE <<"false">>]

\* A number, given by the token String(n) yields.
Num(tok) == [t |-> "num", s |-> <<tok>>]

\* A plain object or array, given by the text JSON.stringify yields for it.
Obj(json) == [t |-> "obj", s |-> json]

\* The function Object, which every plain object inherits as .constructor.
ObjectFn == [t |-> "fn", s |-> <<"function Object() { [native code] }">>]

\* typeof value === 'object' ? JSON.stringify(value) : String(value)
Render(v) == v.s

\* Members every plain object inherits from Object.prototype (the one
\* modelled here is constructor), and the own members of that function.
ProtoMembers == [constructor |-> ObjectFn]

FnMembers == [name |-> Str(<<"Object">>)]

\* The function Function, which the function Object inherits as .constructor.
FunctionFn == [t |-> "fn", s |-> <<"function Function() { [native code] }">>]

\* ------------------------------------------------------------------------
\* resolveVariables
\* ------------------------------------------------------------------------

\* const v = value, then F(v): the value is computed once, before it is used.
Const(F(_), value) == CHOOSE r \in {F(v) : v \in {value}} : TRUE

\* s[i..j] (empty when j < i).
Slice(s, i, j) == IF j < i THEN <<>> ELSE SubSeq(s, i, j)

\* The key a path segment names: a segment of one token names that token,
\* any other segment (empty, or several tokens) names no key of the model.
NoKey == "<no such key>"

KeyOf(seg) == IF Len(seg) = 1 THEN seg[1] ELSE NoKey

\* path.split('.'): the segments between the "." tokens, empty ones kept.
RECURSIVE SplitDots(_)
SplitDots(path) ==
  IF \A i \in 1..Len(path) : path[i] # "."
    THEN <<path>>
    ELSE Const(LAMBDA d : <<Slice(path, 1, d - 1)>>
                            \o SplitDots(Slice(path, d + 1, Len(path))),
               CHOOSE i \in 1..Len(path) :
                 path[i] = "." /\ \A k \in 1..(i - 1) : path[k] # ".")

\* context[nodeId]: the node's entry when the context has one, the inherited
\* member when nodeId names one, else undefined.  An entry is a plain object,
\* given by the record of its own properties.
ContextGet(context, nodeId) ==
  IF KeyOf(nodeId) \in DOMAIN context
    THEN [kind |-> "entry", own |-> context[KeyOf(nodeId)]]
  ELSE IF KeyOf(nodeId) \in DOMAIN ProtoMembers
    THEN [kind |-> "fn", own |-> FnMembers]
  ELSE [kind |-> "undefined", own |-> FnMembers]

\* context[nodeId][field], for the object ContextGet found.
FieldGet(holder, field) ==
  IF KeyOf(field) \in DOMAIN holder.own THEN holder.own[KeyOf(field)]
  ELSE IF holder.kind = "entry" /\ KeyOf(field) \in DOMAIN ProtoMembers
    THEN ProtoMembers[KeyOf(field)]
  ELSE IF holder.kind = "fn" /\ KeyOf(field) = "constructor"
    THEN FunctionFn
  ELSE Undef

\* The replace callback: the text that takes the place of one {{path}} span.
ResolveMatch(match, path, context) ==
  Const(LAMBDA segs :
          LET nodeId == segs[1]
              field  == IF Len(segs) >= 2 THEN segs[2] ELSE <<>>
              holder == ContextGet(context, nodeId)
              value  == FieldGet(holder, field)
          IN IF nodeId = <<>> \/ field = <<>> THEN match
             ELSE IF holder.kind = "undefined" THEN match
             ELSE IF value.t = "undef" THEN match
             ELSE Render(value),
        SplitDots(path))

\* Where the regular expression {{(.*?)}} matches when tried at position i:
\* the position of the first "}}" at or after i + 2, provided s has "{{" at i
\* and no line break lies in between ("." matches no line break); 0 when the
\* expression does not match at i.
CloseAt(s, i) ==
  IF i + 1 > Len(s) \/ s[i] # "{" \/ s[i + 1] # "{" THEN 0
  ELSE LET closes == {j \in (i + 2)..(Len(s) - 1) : s[j] = "}" /\ s[j + 1] = "}"}
       IN IF closes = {} THEN 0
          ELSE LET j == CHOOSE c \in closes : \A d \in closes : c <= d
               IN IF \E k \in (i + 2)..(j - 1) : s[k] = "\n" THEN 0 ELSE j

\* The leftmost position from p on at which the expression matches; 0 when
\* it matches nowhere.
FirstMatch(s, p) ==
  LET starts == {i \in p..Len(s) : CloseAt(s, i) # 0}
  IN IF starts = {} THEN 0
     ELSE CHOOSE a \in starts : \A b \in starts : a <= b

\* template.replace(/{{(.*?)}}/g, callback) from position p on: the leftmost
\* match (from i to j + 1) is replaced and the scan goes on behind it.
RECURSIVE ReplaceFrom(_, _, _)
ReplaceFrom(s, p, context) ==
  Const(LAMBDA i :
          IF i = 0 THEN Slice(s, p, Len(s))
          ELSE Const(LAMBDA j :
                       Slice(s, p, i - 1)
                         \o Const(LAMBDA path : ResolveMatch(Slice(s, i, j + 1), path, context),
                                  Slice(s, i + 2, j - 1))
                         \o ReplaceFrom(s, j + 2, context),
                     CloseAt(s, i)),
        FirstMatch(s, p))

\* resolveVariables(template, context), template being any value.
resolveVariables(template, context) ==
  Const(LAMBDA t : IF t.t # "str" \/ t.s = <<>> THEN t
                   ELSE Str(ReplaceFrom(t.s, 1, context)),
        template)

\* ------------------------------------------------------------------------
\* Nodes, edges and node validation
\* ------------------------------------------------------------------------

\* node.data.config[f]; undefined when the field is not set.
Cfg(node, f) == IF f \in DOMAIN node.config THEN node.config[f] ELSE Undef

\* JavaScript truthiness of a value.
Truthy(v) ==
  CASE v.t = "undef" -> FALSE
    [] v.t = "str"   -> v.s # <<>>
    [] v.t = "bool"  -> v.s = <<"true">>
    [] OTHER         -> TRUE

\* a || b
OrElse(a, b) == IF Truthy(a) THEN a ELSE b

\* String(v), as a template literal `${v}` renders it.
ToText(v) == IF v.t = "undef" THEN <<"undefined">> ELSE Render(v)

NoError == "null"

\* validateNode(node): the message, or NoError for null.
validateNode(node) ==
  IF node.type = "trigger" /\ ~Truthy(Cfg(node, "event")) /\ ~Truthy(Cfg(node, "schedule"))
    THEN "Trigger requires event or schedule"
  ELSE IF node.type = "action" /\ ~Truthy(Cfg(node, "api")) /\ ~Truthy(Cfg(node, "actionType"))
    THEN "Action requires API or action type"
  ELSE IF node.type = "filter" /\ (~Truthy(Cfg(node, "field")) \/ ~Truthy(Cfg(node, "operator")))
    THEN "Filter requires field and operator"
  ELSE IF node.type = "dataSource" /\ ~Truthy(Cfg(node, "sourceType"))
    THEN "Data Source requires a source type"
  ELSE IF node.type = "dataModifier"
            /\ (~Truthy(Cfg(node, "input")) \/ ~Truthy(Cfg(node, "operationType")))
    THEN "Data Modifier requires input and operation type"
  ELSE IF node.type = "multiBranch" /\ ~Truthy(Cfg(node, "branchType"))
    THEN "Multi-path Branch requires a branch type"
  ELSE NoError

\* ------------------------------------------------------------------------
\* Filter evaluation
\* ------------------------------------------------------------------------

\* The number a numeric token stands for; the other tokens are no digits.
TokenNum == [t \in {"100", "150", "200"} |->
               IF t = "100" THEN 100 ELSE IF t = "150" THEN 150 ELSE 200]

\* parseFloat(v): leading blanks are skipped and the number the text starts
\* with is read; nan when it starts with none.  (No text of the model has a
\* sign, a fraction or two adjacent numeric tokens.)
RECURSIVE ParseFloatText(_)
ParseFloatText(s) ==
  IF s = <<>> THEN [nan |-> TRUE, n |-> 0]
  ELSE IF s[1] = " " THEN ParseFloatText(Tail(s))
  ELSE IF s[1] \in DOMAIN TokenNum THEN [nan |-> FALSE, n |-> TokenNum[s[1]]]
  ELSE [nan |-> TRUE, n |-> 0]

parseFloat(v) == ParseFloatText(ToText(v))

\* field == value, for the strings and undefined a node configuration holds.
LooseEquals(a, b) == a.t = b.t /\ a.s = b.s

\* conditionPassed with false for the operators that are not implemented.
StrictOperators(field, operator, value) ==
  IF operator = Str(<<"equals">>) THEN LooseEquals(field, value)
  ELSE IF operator = Str(<<"greater_than">>)
    THEN ~parseFloat(field).nan /\ ~parseFloat(value).nan
           /\ parseFloat(field).n > parseFloat(value).n
  ELSE IF operator = Str(<<"less_than">>)
    THEN ~parseFloat(field).nan /\ ~parseFloat(value).nan
           /\ parseFloat(field).n < parseFloat(value).n
  ELSE FALSE

\* conditionPassed for the resolved operands.
ConditionPassed(field, operator, value) ==
  IF operator = Str(<<"equals">>) THEN LooseEquals(field, value)
  ELSE IF operator = Str(<<"greater_than">>)
    THEN ~parseFloat(field).nan /\ ~parseFloat(value).nan
           /\ parseFloat(field).n > parseFloat(value).n
  ELSE IF operator = Str(<<"less_than">>)
    THEN ~parseFloat(field).nan /\ ~parseFloat(value).nan
           /\ parseFloat(field).n < parseFloat(value).n
  ELSE TRUE

\* What a visit of a Filter node computes: conditionPassed and the entry
\* { result, condition } stored for it.
EvaluateFilter(node, context) ==
  Const(LAMBDA c :
          Const(LAMBDA passed :
                  [passed |-> passed,
                   entry  |-> [result    |-> Bool(passed),
                               condition |-> Str(ToText(c.field) \o <<" ">>
                                                   \o ToText(c.operator) \o <<" ">>
                                                   \o ToText(c.value))]],
                ConditionPassed(c.field, c.operator, c.value)),
        [field    |-> resolveVariables(Cfg(node, "field"), context),
         operator |-> Cfg(node, "operator"),
         value    |-> resolveVariables(Cfg(node, "value"), context)])

\* ------------------------------------------------------------------------
\* The Integration Router, as far as executeNode calls it
\* ------------------------------------------------------------------------

\* A settled call: resolved with the result object value, or rejected.
Resolved(value) == [ok |-> TRUE, value |-> value, error |-> ""]

Rejected(error) == [ok |-> FALSE, value |-> <<>>, error |-> error]

\* EmailService.sendEmail with a provider that is none of the named ones
\* (executeNode passes 'mock'): the required fields are checked, then the
\* mock provider answers.
SendEmail(params) ==
  IF ~Truthy(params.to) \/ ~Truthy(params.subject)
    THEN {Rejected("Email recipient and subject are required")}
    ELSE {Resolved([status    |-> Str(<<"success">>),
                    provider  |-> Str(<<"mock">>),
                    messageId |-> Str(<<"mock-<now>">>),
                    to        |-> params.to,
                    subject   |-> params.subject,
                    template  |-> OrElse(params.template, Str(<<"none">>))])}

\* DatabaseService.executeQuery for type 'mysql' (the type executeNode
\* passes): the required fields are checked, then _queryMySql answers;
\* affectedRows is 0 for a select and a random count otherwise.
ExecuteQuery(params) ==
  IF ~Truthy(params.type) \/ ~Truthy(params.connection) \/ ~Truthy(params.query)
    THEN {Rejected("Database type, connection, and query are required")}
    ELSE {Resolved([status       |-> Str(<<"success">>),
                    database     |-> Str(<<"mysql">>),
                    rows         |-> Obj(<<"[rows]">>),
                    affectedRows |-> Num(n)]) :
            n \in IF params.query.s[1] = "select" THEN {"0"} ELSE {"0", "9"}}

\* ApiService.makeRequest: fetch fails, or the response is not ok while
\* validateStatus is set, or the response is returned.
MakeRequest(params) ==
  {Rejected("Failed to fetch"),
   Resolved([status     |-> Num("200"),
             statusText |-> Str(<<"OK">>),
             headers    |-> Obj(<<"{headers}">>),
             data       |-> Obj(<<"{data}">>)])}
    \cup IF Truthy(params.validateStatus)
           THEN {Rejected("API request failed with status 500")}
           ELSE {}

\* The services the IntegrationManager registers and their operations.
Services == {"api", "email", "database", "fileStorage", "webhook"}

\* IntegrationManager.execute(serviceType, operation, config): the outcomes
\* the call can settle with.
IntegrationExecute(call) ==
  IF call.service \notin Services
    THEN {Rejected("Unknown service type")}
  ELSE IF call.service = "email" /\ call.operation = "sendEmail"
    THEN SendEmail(call.params)
  ELSE IF call.service = "database" /\ call.operation = "executeQuery"
    THEN ExecuteQuery(call.params)
  ELSE IF call.service = "api" /\ call.operation = "makeRequest"
    THEN MakeRequest(call.params)
  ELSE {Rejected("Operation not supported")}

\* ------------------------------------------------------------------------
\* executeNode
\* ------------------------------------------------------------------------

NoCall == [service |-> "none", operation |-> "none", params |-> <<>>]

\* JSON texts of the model: what JSON.parse accepts.
JsonTexts == {<<"{headers}">>, <<"{data}">>, <<"[rows]">>}

\* The Integration Router call executeNode awaits for this node in this
\* context (NoCall when it awaits none); throws is TRUE when executeNode
\* throws before reaching it (JSON.parse of the headers).
ExecCall(node, context) ==
  LET actionType == Cfg(node, "actionType")
      sourceType == Cfg(node, "sourceType")
      apiUrl     == resolveVariables(OrElse(Cfg(node, "apiUrl"), Str(<<>>)), context)
      headers    == resolveVariables(Cfg(node, "headers"), context)
  IN IF node.type = "action" /\ actionType = Str(<<"email">>)
       THEN [throws |-> FALSE,
             call |-> [service |-> "email", operation |-> "sendEmail",
                       params |-> [provider |-> Str(<<"mock">>),
                                   to       |-> resolveVariables(Cfg(node, "to"), context),
                                   subject  |-> resolveVariables(Cfg(node, "subject"), context),
                                   body     |-> resolveVariables(
                                                  OrElse(Cfg(node, "fields"), Str(<<>>)), context),
                                   template |-> Cfg(node, "template")]]]
     ELSE IF node.type = "action" /\ actionType = Str(<<"api_call">>)
       THEN [throws |-> Truthy(Cfg(node, "headers")) /\ ToText(headers) \notin JsonTexts,
             call |-> [service |-> "api", operation |-> "makeRequest",
                       params |-> [url            |-> resolveVariables(Cfg(node, "url"), context),
                                   method         |-> OrElse(Cfg(node, "method"), Str(<<"GET">>)),
                                   validateStatus |-> Bool(TRUE)]]]
     ELSE IF (node.type = "action" /\ actionType = Str(<<"database">>))
               \/ (node.type = "dataSource" /\ sourceType = Str(<<"database">>))
       THEN [throws |-> FALSE,
             call |-> [service |-> "database", operation |-> "executeQuery",
                       params |-> [type       |-> Str(<<"mysql">>),
                                   connection |-> Str(<<"mock://localhost:3306/testdb">>),
                                   query      |-> resolveVariables(
                                                    IF node.type = "action"
                                                      THEN Cfg(node, "query")
                                                      ELSE OrElse(Cfg(node, "query"), Str(<<>>)),
                                                    context)]]]
     ELSE IF node.type = "dataSource" /\ sourceType = Str(<<"api">>)
       THEN [throws |-> FALSE,
             call |-> [service |-> "api", operation |-> "makeRequest",
                       params |-> [url            |-> OrElse(apiUrl, Str(<<"https://jsonplaceholder.typicode.com/posts/1">>)),
                                   method         |-> Str(<<"GET">>),
                                   validateStatus |-> Undef]]]
     ELSE [throws |-> FALSE, call |-> NoCall]

\* { [key]: value }
Single(key, value) == [k \in {KeyOf(ToText(key))} |-> value]

\* What the body of executeNode's try block yields once the awaited call
\* (if any) has settled with outcome: the returned object, or thrown.
ExecBody(node, context, outcome) ==
  Const(LAMBDA plan :
          LET outputVar == OrElse(Cfg(node, "outputVar"), Str(<<"data">>))
              output    == OrElse(Cfg(node, "output"), Str(<<"result">>))
              input     == resolveVariables(OrElse(Cfg(node, "input"), Str(<<>>)), context)
              Return(result) == [thrown |-> FALSE, status |-> "success", result |-> result]
              Throw          == [thrown |-> TRUE, status |-> "none", result |-> <<>>]
          IN IF plan.throws THEN Throw
             ELSE IF plan.call.service # "none" /\ ~outcome.ok THEN Throw
             ELSE IF node.type = "action" THEN
               (IF plan.call.service # "none" THEN Return(outcome.value) ELSE Return(<<>>))
             ELSE IF node.type = "dataSource" THEN
               (IF plan.call.service = "database"
                  THEN Return(Single(outputVar, outcome.value.rows))
                ELSE IF plan.call.service = "api"
                  THEN Return(Single(outputVar, outcome.value.data))
                ELSE Return(Single(outputVar, Obj(<<"{message}">>))))
             ELSE IF node.type = "dataModifier" THEN
               Return(Single(output, Obj(<<"<">> \o ToText(Cfg(node, "operationType"))
                                           \o <<"(">> \o ToText(input) \o <<")>">>)))
             ELSE Return(<<>>),
        ExecCall(node, context))

\* executeNode without its try/catch: a throw leaves executeNode.
LetThrowEscape(body) == body

\* The try/catch of executeNode: a throw becomes { status: 'error' }.
CatchToErrorResult(body) ==
  IF body.thrown THEN [thrown |-> FALSE, status |-> "error", result |-> <<>>] ELSE body

\* executeNode(node, context), the awaited call having settled with outcome.
executeNode(node, context, outcome) ==
  Const(CatchToErrorResult, ExecBody(node, context, outcome))

\* { ...executionResult.result, status: executionResult.status }
ResultEntry(executionResult) ==
  [f \in DOMAIN executionResult.result \cup {"status"} |->
     IF f = "status" THEN Str(<<executionResult.status>>) ELSE executionResult.result[f]]

\* ------------------------------------------------------------------------
\* The workflows the model runs
\* ------------------------------------------------------------------------

\* Most edges a workflow has, and most runs the user starts.
MaxEdges == 4

MaxRuns == 2

Node(id, type, label, config) ==
  [id |-> id, type |-> type, label |-> label, config |-> config]

\* {{nodeId.field}} as a template text.
Ref(nodeId, field) == <<"{", "{", nodeId, ".", field, "}", "}">>

TriggerNode == Node("1", "trigger", "Order placed", [event |-> Str(<<"order">>)])

StatusFilter ==
  Node("3", "filter", "Mail sent?",
       [field    |-> Str(Ref("2", "status")),
        operator |-> Str(<<"equals">>),
        value    |-> Str(<<"success">>)])

\* The node lists: node ids are "1".."4" in array order.
Workflows ==
  << \* a mail that is sent, a filter on its status, a plain action
    << TriggerNode,
       Node("2", "action", "Send mail",
            [actionType |-> Str(<<"email">>), to |-> Str(Ref("1", "event")),
             subject |-> Str(<<"S">>)]),
       StatusFilter,
       Node("4", "action", "Log", [actionType |-> Str(<<"log">>)]) >>,
    \* a mail without recipient, the same filter, a data source without query
    << TriggerNode,
       Node("2", "action", "Send mail", [actionType |-> Str(<<"email">>)]),
       StatusFilter,
       Node("4", "dataSource", "Load rows", [sourceType |-> Str(<<"database">>)]) >>,
    \* a mail without recipient and an unconfigured branch; edges to "4" have
    \* no target
    << TriggerNode,
       Node("2", "action", "Send mail", [actionType |-> Str(<<"email">>)]),
       Node("3", "multiBranch", "Unconfigured branch", <<>>) >>,
    \* an action and a second trigger that fail validation, an API call
    << TriggerNode,
       Node("2", "action", "Unconfigured", <<>>),
       Node("3", "trigger", "Bare trigger", <<>>),
       Node("4", "action", "Call API",
            [actionType |-> Str(<<"api_call">>),
             url |-> Str(<<"https://x/">> \o Ref("1", "event"))]) >>,
    \* two triggers and an API data source; edges to "4" have no target
    << TriggerNode,
       Node("2", "trigger", "Nightly", [schedule |-> Str(<<"1st day 8AM">>)]),
       Node("3", "dataSource", "Fetch", [sourceType |-> Str(<<"api">>),
                                          outputVar |-> Str(<<"x">>)]) >>,
    \* no trigger at all
    << Node("1", "action", "Log", [actionType |-> Str(<<"log">>)]),
       Node("2", "filter", "Unconfigured filter", <<>>),
       Node("3", "flowControl", "For each", [type |-> Str(<<"loop">>)]),
       Node("4", "multiBranch", "Branch", [branchType |-> Str(<<"condition">>)]) >>,
    \* a mail whose subject is a number, a numeric filter, an unconfigured branch
    << TriggerNode,
       Node("2", "action", "Send total",
            [actionType |-> Str(<<"email">>), to |-> Str(<<"a@b.com">>),
             subject |-> Str(<<"150">>)]),
       Node("3", "filter", "Total > 100?",
            [field    |-> Str(Ref("2", "subject")),
             operator |-> Str(<<"greater_than">>),
             value    |-> Str(<<"100">>)]),
       Node("4", "multiBranch", "Unconfigured branch", <<>>) >>,
    \* a placeholder data source, a data modifier, a database action
    << TriggerNode,
       Node("2", "dataSource", "Static", [sourceType |-> Str(<<"file">>)]),
       Node("3", "dataModifier", "Transform",
            [input |-> Str(Ref("2", "data")), operationType |-> Str(<<"transform">>)]),
       Node("4", "action", "Update stock",
            [actionType |-> Str(<<"database">>),
             query |-> Str(<<"update ">> \o Ref("3", "result"))]) >>,
    \* a filter on the trigger's event, a filter without operator, a plain action
    << TriggerNode,
       Node("2", "filter", "Is order?",
            [field    |-> Str(Ref("1", "event")),
             operator |-> Str(<<"equals">>),
             value    |-> Str(<<"order">>)]),
       Node("3", "filter", "Unconfigured filter", [field |-> Str(<<"x">>)]),
       Node("4", "action", "Log", [actionType |-> Str(<<"log">>)]) >>,
    \* two filters with operators of the configuration panel that
    \* processConnectedNodes does not implement, and a plain action
    << TriggerNode,
       Node("2", "filter", "Is a refund?",
            [field    |-> Str(Ref("1", "event")),
             operator |-> Str(<<"contains">>),
             value    |-> Str(<<"refund">>)]),
       Node("3", "filter", "Not an order?",
            [field    |-> Str(Ref("1", "event")),
             operator |-> Str(<<"not_equals">>),
             value    |-> Str(<<"order">>)]),
       Node("4", "action", "Log", [actionType |-> Str(<<"log">>)]) >> >>

\* The node ids edges connect; an edge leads from an id to a later one, so
\* every workflow is acyclic.
Ids == <<"1", "2", "3", "4">>

ForwardPairs ==
  {[source |-> Ids[i], target |-> Ids[j]] : <<i, j>> \in
     {<<i, j>> \in (1..Len(Ids)) \X (1..Len(Ids)) : i < j}}

\* The edge lists of at most n pairwise different edges.
RECURSIVE EdgeLists(_)
EdgeLists(n) ==
  IF n = 0 THEN {<<>>}
  ELSE LET shorter == EdgeLists(n - 1)
       IN shorter \cup
          {Append(es, p) : <<es, p>> \in
             {<<es, p>> \in shorter \X ForwardPairs :
                Len(es) = n - 1 /\ \A k \in 1..Len(es) : es[k] # p}}

\* ------------------------------------------------------------------------
\* State
\* ------------------------------------------------------------------------

VARIABLES
  nodes,        \* React state nodes: the node array
  edges,        \* React state edges: the edge array
  logs,         \* React state logs
  dataContext,  \* React state dataContext
  isSimulating, \* React state isSimulating
  runState,     \* "NotStarted", "Running" or "Completed"
  context,      \* the run's local context: node id -> entry
  errors,       \* the run's local errors
  frames,       \* the run's pending calls: simulateWorkflow at the bottom,
                \* one processConnectedNodes call per frame above it
  inflight,     \* Integration Router calls that have not settled
  trace,        \* history: what the run did, one event per handled edge or trigger
  runs,         \* history: how many runs were started
  rv,           \* a resolveVariables call on its own (specification SpecResolve)
  vw,           \* a validateWorkflow call on its own (specification SpecValidate)
  svc,          \* an IntegrationManager.execute call on its own (specification SpecServices)
  registeredWebhooks,  \* WebhookService.registeredWebhooks, in insertion order
  webhookHistory,      \* WebhookService.webhookHistory
  wh            \* history: the last WebhookService call, and the handlers invoked

\* The variables of the calls made on their own.
callVars == <<vw, svc>>

\* The variables of the WebhookService.
webhookVars == <<registeredWebhooks, webhookHistory, wh>>

vars == <<nodes, edges, logs, dataContext, isSimulating, runState, context,
          errors, frames, inflight, trace, runs, rv, callVars, webhookVars>>

EmptyObject == <<>>

\* An assignment that leaves the object as it was.
KeepObject(object, key, value) == object

\* object[key] = value
Put(object, key, value) ==
  [k \in DOMAIN object \cup {key} |-> IF k = key THEN value ELSE object[k]]

\* nodes.filter(node => node.type === 'trigger')
RECURSIVE TriggerNodes(_)
TriggerNodes(ns) ==
  IF ns = <<>> THEN <<>>
  ELSE (IF Head(ns).type = "trigger" THEN <<Head(ns)>> ELSE <<>>) \o TriggerNodes(Tail(ns))

\* edges.filter(edge => edge.source === nodeId), as positions in edges.
RECURSIVE OutgoingFrom(_, _, _)
OutgoingFrom(es, nodeId, from) ==
  IF from > Len(es) THEN <<>>
  ELSE (IF es[from].source = nodeId THEN <<from>> ELSE <<>>)
         \o OutgoingFrom(es, nodeId, from + 1)

\* edges.find in place of edges.filter: the first outgoing edge alone.
FirstOutgoingEdge(nodeId) ==
  IF OutgoingFrom(edges, nodeId, 1) = <<>> THEN <<>>
  ELSE <<OutgoingFrom(edges, nodeId, 1)[1]>>

OutgoingEdges(nodeId) == OutgoingFrom(edges, nodeId, 1)

\* nodes.find(node => node.id === id) finds a node.
HasNode(id) == \E n \in 1..Len(nodes) : nodes[n].id = id

FindNode(id) ==
  nodes[CHOOSE n \in 1..Len(nodes) :
          nodes[n].id = id /\ \A m \in 1..(n - 1) : nodes[m].id # id]

\* The payload a Trigger seeds the context with.
TriggerSeed(node) ==
  [timestamp |-> Str(<<"<now>">>),
   event     |-> OrElse(Cfg(node, "event"), Str(<<"scheduled_event">>)),
   data      |-> Obj(<<"{order}">>)]

\* No await before the call: the caller goes on while the call is pending.
CallerKeepsRunning == "ready"

\* What the caller of an awaited async call does until the call returns.
CallerStateAfterCall == "awaitChild"

\* The awaited call never hands control back.
LeaveCallerWaiting(state) == state

\* The awaited call has returned: the caller that waited for it goes on.
ResumeCaller(state) == IF state = "awaitChild" THEN "ready" ELSE state

Frame(node, act, caller) ==
  [node |-> node, k |-> 0, state |-> "ready", act |-> act, caller |-> caller]

\* A trace event: the trigger fired or the edge handled (edge, a position in
\* edges, 0 for a trigger), the node concerned, the frame that handled it
\* (act, the position of the event that opened the frame, 0 for
\* simulateWorkflow), whether the filter passed or the execution succeeded,
\* and how the awaited Integration Router call settled, if there was one.
Event(kind, node, edge, act, passed, settled) ==
  [kind |-> kind, node |-> node, edge |-> edge, act |-> act, passed |-> passed,
   settled |-> settled]

RvIdle == [pc |-> "idle", parts |-> <<>>, template |-> Undef, context |-> EmptyObject,
           once |-> Undef, twice |-> Undef]

\* No validateWorkflow call is being made.
VwIdle == [pc |-> "idle", nodes |-> <<>>, edges |-> <<>>, errors |-> <<>>, valid |-> FALSE]

\* No IntegrationManager.execute call is being made.
SvcIdle == [pc |-> "idle", service |-> "", operation |-> "", config |-> <<>>,
            target |-> "", invoked |-> <<>>, outcome |-> <<>>]

\* No WebhookService call was made yet.
WhIdle == [op |-> "none", ok |-> TRUE, error |-> "", result |-> <<>>, handled |-> 0,
           ids |-> 0, handler |-> 0, body |-> ""]

\* The calls made on their own and the WebhookService, before any call.
ServicesAtRest ==
  /\ vw = VwIdle
  /\ svc = SvcIdle
  /\ registeredWebhooks = <<>>
  /\ webhookHistory = <<>>
  /\ wh = WhIdle

Init ==
  /\ ServicesAtRest
  /\ \E w \in 1..Len(Workflows) : nodes = Workflows[w]
  /\ edges \in EdgeLists(MaxEdges)
  /\ logs = <<>>
  /\ dataContext = EmptyObject
  /\ isSimulating = FALSE
  /\ runState = "NotStarted"
  /\ context = EmptyObject
  /\ errors = <<>>
  /\ frames = <<>>
  /\ inflight = {}
  /\ trace = <<>>
  /\ runs = 0
  /\ rv = RvIdle

\* ------------------------------------------------------------------------
\* simulateWorkflow and processConnectedNodes
\* ------------------------------------------------------------------------

\* The frames that may take a step: those not suspended at an await.
Ready(i) == i \in 1..Len(frames) /\ frames[i].state = "ready"

\* The edge (a position in edges) a processConnectedNodes frame handles next.
HasNextEdge(i) ==
  /\ Ready(i)
  /\ frames[i].node # "main"
  /\ frames[i].k < Len(OutgoingEdges(frames[i].node))

NextEdge(i) == OutgoingEdges(frames[i].node)[frames[i].k + 1]

\* break in place of continue: the for loop is left.
BreakLoop(i) ==
  [frames EXCEPT ![i].k = Len(OutgoingFrom(edges, frames[i].node, 1)), ![i].state = "ready"]

\* The for loop goes on to the next edge (continue, or the end of the body).
Continue(i) == [frames EXCEPT ![i].k = @ + 1, ![i].state = "ready"]

\* await processConnectedNodes(nodeId, context, errors): the call is pushed
\* and the caller waits for it; act names the trace event that opened it.
Call(i, nodeId, act) ==
  Append([frames EXCEPT ![i].k = @ + 1, ![i].state = CallerStateAfterCall],
         Frame(nodeId, act, i))

\* Click on "Simulate Workflow" (disabled while isSimulating): simulateWorkflow
\* up to its for loop; with no nodes it warns and returns.
StartRun ==
  /\ ~isSimulating
  /\ runState # "Running"
  /\ runs < MaxRuns
  /\ runs' = runs + 1
  /\ context' = EmptyObject
  /\ errors' = <<>>
  /\ trace' = <<>>
  /\ inflight' = {}
  /\ IF Len(nodes) = 0
       THEN /\ logs' = logs \o << <<"Starting workflow simulation...">>,
                                  <<"Warning: No nodes to simulate">> >>
            /\ isSimulating' = FALSE
            /\ runState' = "Completed"
            /\ frames' = <<>>
       ELSE /\ logs' = logs \o << <<"Starting workflow simulation...">> >>
                         \o (IF Len(TriggerNodes(nodes)) = 0
                               THEN << <<"Warning: Workflow should start with a trigger node">> >>
                               ELSE <<>>)
            /\ isSimulating' = TRUE
            /\ runState' = "Running"
            /\ frames' = <<Frame("main", 0, 0)>>
  /\ UNCHANGED <<nodes, edges, dataContext, rv, callVars, webhookVars>>

\* One iteration of the loop over the trigger nodes, up to its await.
FireTrigger ==
  \E i \in 1..Len(frames) :
    /\ Ready(i)
    /\ frames[i].node = "main"
    /\ frames[i].k < Len(TriggerNodes(nodes))
    /\ LET triggerNode == TriggerNodes(nodes)[frames[i].k + 1]
       IN /\ logs' = Append(logs, <<"Trigger: ", triggerNode.label, " fired">>)
          /\ context' = Put(context, triggerNode.id, TriggerSeed(triggerNode))
          /\ trace' = Append(trace, Event("seed", triggerNode.id, 0, frames[i].act, TRUE, "none"))
          /\ frames' = Call(i, triggerNode.id, Len(trace) + 1)
    /\ UNCHANGED <<nodes, edges, dataContext, isSimulating, runState, errors,
                   inflight, runs, rv, callVars, webhookVars>>

\* The edge's target is no node of the workflow: warn and continue.
SkipMissingTarget ==
  \E i \in 1..Len(frames) :
    /\ HasNextEdge(i)
    /\ ~HasNode(edges[NextEdge(i)].target)
    /\ frames' = Continue(i)
    /\ trace' = Append(trace, Event("missing", edges[NextEdge(i)].target, NextEdge(i),
                                    frames[i].act, FALSE, "none"))
    /\ UNCHANGED <<nodes, edges, logs, dataContext, isSimulating, runState, context,
                   errors, inflight, runs, rv, callVars, webhookVars>>

\* validateNode returns a message: record the error and continue.
RejectInvalidNode ==
  \E i \in 1..Len(frames) :
    /\ HasNextEdge(i)
    /\ HasNode(edges[NextEdge(i)].target)
    /\ \E targetNode \in {FindNode(edges[NextEdge(i)].target)} :
          /\ validateNode(targetNode) # NoError
          /\ errors' = Append(errors, <<"Error in ", targetNode.label, ": ",
                                        validateNode(targetNode)>>)
          /\ trace' = Append(trace, Event("invalid", targetNode.id, NextEdge(i),
                                          frames[i].act, FALSE, "none"))
    /\ frames' = Continue(i)
    /\ UNCHANGED <<nodes, edges, logs, dataContext, isSimulating, runState, context,
                   inflight, runs, rv, callVars, webhookVars>>

\* The target is a Filter: evaluate it, store its entry, and process its
\* successors only when the condition passed.
VisitFilter ==
  \E i \in 1..Len(frames) :
    /\ HasNextEdge(i)
    /\ HasNode(edges[NextEdge(i)].target)
    /\ \E targetNode \in {FindNode(edges[NextEdge(i)].target)} :
        \E filter \in {EvaluateFilter(targetNode, context)} :
          /\ validateNode(targetNode) = NoError
          /\ targetNode.type = "filter"
          /\ context' = Put(context, targetNode.id, filter.entry)
          /\ logs' = Append(logs, <<"Filter: ", targetNode.label, " evaluated to ",
                                    IF filter.passed THEN "true" ELSE "false">>)
          /\ trace' = Append(trace, Event("filter", targetNode.id, NextEdge(i),
                                          frames[i].act, filter.passed, "none"))
          /\ frames' = IF filter.passed
                         THEN Call(i, targetNode.id, Len(trace) + 1)
                         ELSE Continue(i)
    /\ UNCHANGED <<nodes, edges, dataContext, isSimulating, runState, errors,
                   inflight, runs, rv, callVars, webhookVars>>

\* What follows await executeNode(targetNode, context) in frame i, result
\* being what executeNode produced: the entry is stored, the execution logged
\* and the successors processed; a throw is caught by the catch of the loop
\* body, which records the error and continues.
AfterExecute(i, e, targetNode, result, settled) ==
  IF result.thrown
    THEN /\ errors' = Append(errors, <<"Error in ", targetNode.label, ": ", "thrown">>)
         /\ trace' = Append(trace, Event("threw", targetNode.id, e, frames[i].act, FALSE, settled))
         /\ frames' = Continue(i)
         /\ UNCHANGED <<context, logs>>
    ELSE /\ context' = Put(context, targetNode.id, ResultEntry(result))
         /\ logs' = Append(logs, <<targetNode.type, ": ", targetNode.label, " - ",
                                   IF result.status = "error" THEN "undefined"
                                                              ELSE "<message>">>)
         /\ trace' = Append(trace, Event("exec", targetNode.id, e, frames[i].act,
                                         result.status = "success", settled))
         /\ frames' = Call(i, targetNode.id, Len(trace) + 1)
         /\ errors' = errors

\* The target is executed and executeNode awaits no Integration Router call.
ExecuteNode ==
  \E i \in 1..Len(frames) :
    /\ HasNextEdge(i)
    /\ HasNode(edges[NextEdge(i)].target)
    /\ \E targetNode \in {FindNode(edges[NextEdge(i)].target)} :
        \E plan \in {ExecCall(targetNode, context)} :
          /\ validateNode(targetNode) = NoError
          /\ targetNode.type # "filter"
          /\ plan.throws \/ plan.call.service = "none"
          /\ \E result \in {executeNode(targetNode, context, Rejected(""))} :
               AfterExecute(i, NextEdge(i), targetNode, result, "none")
    /\ UNCHANGED <<nodes, edges, dataContext, isSimulating, runState, inflight, runs, rv, callVars, webhookVars>>

\* The target is executed and executeNode awaits an Integration Router call.
BeginProviderCall ==
  \E i \in 1..Len(frames) :
    /\ HasNextEdge(i)
    /\ HasNode(edges[NextEdge(i)].target)
    /\ \E targetNode \in {FindNode(edges[NextEdge(i)].target)} :
        \E plan \in {ExecCall(targetNode, context)} :
          /\ validateNode(targetNode) = NoError
          /\ targetNode.type # "filter"
          /\ ~plan.throws
          /\ plan.call.service # "none"
          /\ inflight' = inflight \cup {[frame |-> i, edge |-> NextEdge(i), call |-> plan.call]}
          /\ frames' = [frames EXCEPT ![i].state = "awaitExec"]
    /\ UNCHANGED <<nodes, edges, logs, dataContext, isSimulating, runState, context,
                   errors, trace, runs, rv, callVars, webhookVars>>

\* An awaited Integration Router call settles and executeNode returns.
SettleProviderCall ==
  \E c \in inflight :
    \E outcome \in IntegrationExecute(c.call) :
      /\ inflight' = inflight \ {c}
      /\ \E targetNode \in {FindNode(edges[c.edge].target)} :
           \E result \in {executeNode(targetNode, context, outcome)} :
             AfterExecute(c.frame, c.edge, targetNode, result,
                          IF outcome.ok THEN "resolved" ELSE "rejected")
      /\ UNCHANGED <<nodes, edges, dataContext, isSimulating, runState, runs, rv, callVars, webhookVars>>

\* processConnectedNodes has handled its last edge and returns to its caller.
ReturnFromNode ==
  /\ Len(frames) > 1
  /\ Ready(Len(frames))
  /\ frames[Len(frames)].k = Len(OutgoingEdges(frames[Len(frames)].node))
  /\ frames' = [SubSeq(frames, 1, Len(frames) - 1) EXCEPT
                  ![frames[Len(frames)].caller].state = ResumeCaller(@)]
  /\ UNCHANGED <<nodes, edges, logs, dataContext, isSimulating, runState, context,
                 errors, inflight, trace, runs, rv, callVars, webhookVars>>

\* The loop over the trigger nodes is over: the run publishes its context.
FinishRun ==
  /\ Len(frames) = 1
  /\ Ready(1)
  /\ frames[1].node = "main"
  /\ frames[1].k = Len(TriggerNodes(nodes))
  /\ dataContext' = context
  /\ logs' = logs \o errors \o << <<"Workflow simulation complete">> >>
  /\ isSimulating' = FALSE
  /\ runState' = "Completed"
  /\ frames' = <<>>
  /\ UNCHANGED <<nodes, edges, context, errors, inflight, trace, runs, rv, callVars, webhookVars>>

\* The user selects all nodes and deletes them (onNodesChange, onEdgesChange).
DeleteAllNodes ==
  /\ runState # "Running"
  /\ Len(nodes) > 0
  /\ nodes' = <<>>
  /\ edges' = <<>>
  /\ UNCHANGED <<logs, dataContext, isSimulating, runState, context, errors,
                 frames, inflight, trace, runs, rv, callVars, webhookVars>>

Next ==
  \/ StartRun
  \/ FireTrigger
  \/ SkipMissingTarget
  \/ RejectInvalidNode
  \/ VisitFilter
  \/ ExecuteNode
  \/ BeginProviderCall
  \/ SettleProviderCall
  \/ ReturnFromNode
  \/ FinishRun
  \/ DeleteAllNodes

Spec == Init /\ [][Next]_vars

\* The steps of a started run: the JavaScript event loop runs every
\* continuation that is ready, and every awaited Integration Router call
\* settles.
RunStep ==
  \/ FireTrigger
  \/ SkipMissingTarget
  \/ RejectInvalidNode
  \/ VisitFilter
  \/ ExecuteNode
  \/ BeginProviderCall
  \/ SettleProviderCall
  \/ ReturnFromNode
  \/ FinishRun

FairSpec == Spec /\ WF_vars(RunStep)

\* ------------------------------------------------------------------------
\* The graph and the trace, as the properties read them
\* ------------------------------------------------------------------------

NodeIds == {nodes[n].id : n \in 1..Len(nodes)}

TriggerIds == {nodes[n].id : n \in {m \in 1..Len(nodes) : nodes[m].type = "trigger"}}

\* The positions in edges of the edges that leave nodeId.
EdgesLeaving(nodeId) == {e \in 1..Len(edges) : edges[e].source = nodeId}

\* The nodes reachable from the nodes in from along edges that lead from a
\* node in sources to a node in targets.
RECURSIVE ReachableVia(_, _, _)
ReachableVia(from, sources, targets) ==
  LET next == from \cup {edges[e].target : e \in
                           {d \in 1..Len(edges) :
                              /\ edges[d].source \in from \cap sources
                              /\ edges[d].target \in targets}}
  IN IF next = from THEN from ELSE ReachableVia(next, sources, targets)

\* The nodes reachable from a Trigger node.
Reachable == ReachableVia(TriggerIds, NodeIds, NodeIds)

\* The nodes every path from the Trigger nodes to which leads through
\* nodeId.
OnlyThrough(nodeId) ==
  (Reachable \ ReachableVia(TriggerIds \ {nodeId}, NodeIds \ {nodeId}, NodeIds \ {nodeId}))
    \ {nodeId}

\* The run is over, for the workflow it ran on.
RunOver == runState = "Completed" /\ Len(nodes) > 0

\* The edges the frame opened by trace event a has handled.
HandledBy(a) == {trace[p].edge : p \in {q \in 1..Len(trace) : trace[q].act = a}}

\* ------------------------------------------------------------------------
\* Properties
\* ------------------------------------------------------------------------

\* C1 (as claimed): when a visit of a Filter node evaluates to false, none of
\* the filter's outgoing edges is traversed from that visit and, the run
\* being over, no node reachable from the Trigger nodes only through that
\* filter has an entry in the context; when it evaluates to true, every
\* outgoing edge of the filter is traversed from that visit.
FilterGating ==
  RunOver =>
    \A p \in 1..Len(trace) :
      trace[p].kind = "filter" =>
        IF trace[p].passed
          THEN HandledBy(p) = EdgesLeaving(trace[p].node)
          ELSE /\ HandledBy(p) = {}
               /\ \A m \in OnlyThrough(trace[p].node) : m \notin DOMAIN context

\* The nodes that pass validateNode.
ValidIds == {nodes[n].id : n \in {m \in 1..Len(nodes) : validateNode(nodes[m]) = NoError}}

\* The Filter nodes.
FilterIds == {nodes[n].id : n \in {m \in 1..Len(nodes) : nodes[m].type = "filter"}}

\* The Filter nodes a visit of which evaluated to true in this run.
PassedFilters ==
  {trace[p].node : p \in {q \in 1..Len(trace) : trace[q].kind = "filter" /\ trace[q].passed}}

\* The nodes reachable from a Trigger node along a path on which every node
\* after the Trigger passes validateNode and every Filter node before the
\* last node evaluated to true at least once.
ReachableUngated ==
  ReachableVia(TriggerIds, (NodeIds \ FilterIds) \cup PassedFilters, ValidIds)

\* C2 (as claimed): the run over, every node reachable from a Trigger node
\* has an entry in the context.
ReachableNodesHaveEntries ==
  RunOver => \A m \in Reachable : m \in DOMAIN context

\* C2 (amended): the run over, every node reachable from a Trigger node along
\* a path on which every node after the Trigger passes validateNode and every
\* Filter node before the last node evaluated to true at least once has an
\* entry in the context.
UngatedNodesHaveEntries ==
  RunOver => \A m \in ReachableUngated : m \in DOMAIN context

\* C2 witness: a finished run in which a node behind a filter that passed has
\* its entry while another reachable node has none.
UngatedWitness ==
  /\ RunOver
  /\ \E f \in PassedFilters : \E e \in EdgesLeaving(f) : edges[e].target \in DOMAIN context
  /\ \E m \in Reachable : m \notin DOMAIN context

\* The last event of the trace after the step.
LastEvent(tr) == tr[Len(tr)]

\* C3: when the Integration Router rejects the call an Action or DataSource
\* node awaits, the error does not leave executeNode (no error is recorded
\* for the edge), the node gets an entry with status 'error', and
\* processConnectedNodes is called for the node; the run over, the frame of
\* every executed node, failed or not, has handled every outgoing edge of
\* the node.
FailedCallDoesNotGate ==
  /\ [][\A c \in inflight :
          (c \notin inflight' /\ Len(trace') = Len(trace) + 1
             /\ LastEvent(trace').settled = "rejected")
          => LET n == edges[c.edge].target
             IN /\ FindNode(n).type \in {"action", "dataSource"}
                /\ LastEvent(trace').kind = "exec"
                /\ errors' = errors
                /\ n \in DOMAIN context'
                /\ context'[n].status = Str(<<"error">>)
                /\ Len(frames') = Len(frames) + 1
                /\ frames'[Len(frames')].node = n
                /\ frames'[Len(frames')].k = 0]_vars
  /\ [](RunOver =>
          \A p \in 1..Len(trace) :
            trace[p].kind = "exec" => HandledBy(p) = EdgesLeaving(trace[p].node))

\* C3 witness: a finished run in which a call was rejected, the node has its
\* 'error' entry and a node behind it was executed from its frame.
FailedCallWitness ==
  /\ RunOver
  /\ \E p \in 1..Len(trace) :
       /\ trace[p].settled = "rejected"
       /\ trace[p].node \in DOMAIN context
       /\ context[trace[p].node].status = Str(<<"error">>)
       /\ \E q \in 1..Len(trace) : trace[q].act = p /\ trace[q].kind = "exec"

\* The event is the handling of an edge whose target node fails validateNode.
InvalidTarget(ev) ==
  /\ ev.edge # 0
  /\ HasNode(edges[ev.edge].target)
  /\ validateNode(FindNode(edges[ev.edge].target)) # NoError

\* C4: when the target node of an edge fails validateNode, exactly one entry
\* naming the node's label is appended to errors, the context is left as it
\* is, no Integration Router call is made and processConnectedNodes is not
\* called for the node; the run over, no edge was handled from that visit
\* and the later outgoing edges of the same source node were handled by the
\* same frame.
ValidationErrorIsolated ==
  /\ [][(Len(trace') = Len(trace) + 1 /\ InvalidTarget(LastEvent(trace')))
          => /\ Len(errors') = Len(errors) + 1
             /\ SubSeq(errors', 1, Len(errors)) = errors
             /\ errors'[Len(errors')][2] = FindNode(edges[LastEvent(trace').edge].target).label
             /\ context' = context
             /\ inflight' = inflight
             /\ Len(frames') = Len(frames)]_vars
  /\ [](RunOver =>
          \A p \in 1..Len(trace) :
            InvalidTarget(trace[p]) =>
              /\ HandledBy(p) = {}
              /\ \A e \in EdgesLeaving(edges[trace[p].edge].source) :
                   e > trace[p].edge => e \in HandledBy(trace[p].act))

\* C4 witness: a finished run in which a node with outgoing edges failed
\* validation and a later edge of the same source node was handled.
ValidationErrorWitness ==
  /\ RunOver
  /\ \E p \in 1..Len(trace) :
       /\ InvalidTarget(trace[p])
       /\ EdgesLeaving(trace[p].node) # {}
       /\ Len(errors) > 0
       /\ \E q \in (p + 1)..Len(trace) : trace[q].act = trace[p].act

\* The position of the node with this id in nodes.
NodePos(id) == CHOOSE n \in 1..Len(nodes) : nodes[n].id = id

\* Trace event r was made by a frame opened, directly or through further
\* calls, by trace event p: its node is a descendant of the node of p.
RECURSIVE Descends(_, _)
Descends(r, p) ==
  /\ trace[r].act # 0
  /\ (trace[r].act = p \/ Descends(trace[r].act, p))

\* C5: at any moment at most one Integration Router call and at most one
\* node execution is in progress, every pending call but the innermost waits
\* for the call it made, the edges of a node are handled in edge-list order
\* without a gap, the Trigger nodes in node order, and what is handled over a
\* later edge (or for a later Trigger) starts only after everything that
\* descends from the earlier one.
SequentialDepthFirst ==
  /\ Cardinality(inflight) <= 1
  /\ Cardinality({j \in 1..Len(frames) : frames[j].state = "awaitExec"}) <= 1
  /\ \A j \in 1..Len(frames) :
       /\ frames[j].caller = j - 1
       /\ j < Len(frames) => frames[j].state = "awaitChild"
  /\ \A c \in inflight :
       c.frame = Len(frames) /\ frames[c.frame].state = "awaitExec"
  /\ \A q \in {x \in 1..Len(trace) : Len(nodes) > 0} :
       /\ trace[q].act < q
       /\ IF trace[q].act = 0
            THEN {trace[x].node : x \in {y \in 1..q : trace[y].act = 0}}
                   = {t \in TriggerIds : NodePos(t) <= NodePos(trace[q].node)}
            ELSE {trace[x].edge : x \in {y \in 1..q : trace[y].act = trace[q].act}}
                   = {e \in EdgesLeaving(edges[trace[q].edge].source) : e <= trace[q].edge}
       /\ \A p \in 1..(q - 1) :
            trace[p].act = trace[q].act =>
              /\ trace[q].act = 0 => NodePos(trace[p].node) < NodePos(trace[q].node)
              /\ trace[q].act # 0 => trace[p].edge < trace[q].edge
              /\ \A r \in 1..Len(trace) : Descends(r, p) => (p < r /\ r < q)

\* C5 witness: a finished run with two Trigger nodes in which a provider
\* call settled and a node with descendants had a later sibling.
SequentialWitness ==
  /\ RunOver
  /\ Cardinality({x \in 1..Len(trace) : trace[x].kind = "seed"}) >= 2
  /\ \E x \in 1..Len(trace) : trace[x].settled # "none"
  /\ \E p, q, r \in 1..Len(trace) :
       /\ p < q
       /\ trace[p].act = trace[q].act
       /\ trace[q].act # 0
       /\ Descends(r, p)

\* C6 (as claimed): within one run no step replaces or removes the entry a
\* node id has in the context.
ContextAppendOnly ==
  [][runs' = runs =>
       \A n \in DOMAIN context : n \in DOMAIN context' /\ context'[n] = context[n]]_vars

\* C7 (as claimed): a run started on a workflow without nodes executes no
\* node, logs the warning, ends inactive, and the data context it leaves is
\* the empty mapping.
ZeroNodeRunLeavesEmptyContext ==
  [][(runs' = runs + 1 /\ Len(nodes) = 0) =>
       /\ runState' = "Completed"
       /\ ~isSimulating'
       /\ frames' = <<>> /\ trace' = <<>> /\ inflight' = {}
       /\ \E l \in 1..Len(logs') : logs'[l] = <<"Warning: No nodes to simulate">>
       /\ DOMAIN dataContext' = {}]_vars

\* The log entries "Simulation failed: ..." of the catch around the whole of
\* simulateWorkflow.
FailedLogs == {l \in 1..Len(logs) : logs[l][1] = "Simulation failed: "}

MaxParts == 3

\* The parts of a template: text without braces, a {{nodeId.field}}
\* placeholder, a placeholder with a longer path {{nodeId.field.member}}, or
\* other text with braces.
Lit(text) == [kind |-> "lit", text |-> text, node |-> "", field |-> "", member |-> ""]

Placeholder(nodeId, field) ==
  [kind |-> "ref", text |-> Ref(nodeId, field), node |-> nodeId, field |-> field,
   member |-> ""]

DeepPlaceholder(nodeId, field, member) ==
  [kind |-> "deep", text |-> <<"{", "{", nodeId, ".", field, ".", member, "}", "}">>,
   node |-> nodeId, field |-> field, member |-> member]

Raw(text) == [kind |-> "raw", text |-> text, node |-> "", field |-> "", member |-> ""]

RvParts ==
  {Lit(<<"Hello ">>),
   Placeholder("1", "event"), Placeholder("2", "status"), Placeholder("3", "condition"),
   Placeholder("9", "name"), Placeholder("1", "name"),
   Placeholder("constructor", "name"), Placeholder("1", "constructor"),
   DeepPlaceholder("1", "data", "orderId"), DeepPlaceholder("1", "data", "coupon"),
   DeepPlaceholder("1", "user", "name"),
   Raw(<<"{", "{">>), Raw(<<"}", "}">>), Raw(<<"{", "{", "1", "}", "}">>)}

\* The lists of at most n parts.
RECURSIVE PartLists(_)
PartLists(n) ==
  IF n = 0 THEN {<<>>}
  ELSE PartLists(n - 1) \cup
       {Append(ps, part) : <<ps, part>> \in
          {<<ps, part>> \in PartLists(n - 1) \X RvParts : Len(ps) = n - 1}}

\* The text the parts make up.
RECURSIVE Concat(_)
Concat(ps) == IF ps = <<>> THEN <<>> ELSE Head(ps).text \o Concat(Tail(ps))

\* Templates that are no strings, and the empty string.
OtherTemplates == {Undef, Num("100"), Bool(FALSE), Obj(<<"{data}">>)}

\* The contexts a run builds: empty; the Trigger's payload; and that of a run
\* which visited the filter "Mail sent?" before the mail was sent.
SeededContext == Put(EmptyObject, "1", TriggerSeed(TriggerNode))

RvContexts ==
  << EmptyObject,
     SeededContext,
     Put(Put(SeededContext, "3", EvaluateFilter(StatusFilter, SeededContext).entry),
         "2", [status |-> Str(<<"success">>), provider |-> Str(<<"mock">>)]) >>

InitResolve ==
  /\ ServicesAtRest
  /\ nodes = <<>>
  /\ edges = <<>>
  /\ logs = <<>>
  /\ dataContext = EmptyObject
  /\ isSimulating = FALSE
  /\ runState = "NotStarted"
  /\ context = EmptyObject
  /\ errors = <<>>
  /\ frames = <<>>
  /\ inflight = {}
  /\ trace = <<>>
  /\ runs = 0
  /\ \E ps \in PartLists(MaxParts) :
       \E c \in 1..Len(RvContexts) :
         \E template \in {Str(Concat(ps))} \cup (IF ps = <<>> THEN OtherTemplates ELSE {}) :
           rv = [pc |-> "start", parts |-> ps, template |-> template,
                 context |-> RvContexts[c], once |-> Undef, twice |-> Undef]

\* resolveVariables(template, context)
RvResolve ==
  /\ rv.pc = "start"
  /\ rv' = [rv EXCEPT !.pc = "once", !.once = resolveVariables(rv.template, rv.context)]
  /\ UNCHANGED <<nodes, edges, logs, dataContext, isSimulating, runState, context,
                 errors, frames, inflight, trace, runs, callVars, webhookVars>>

\* resolveVariables of what the first call returned, in the same context
RvResolveAgain ==
  /\ rv.pc = "once"
  /\ rv' = [rv EXCEPT !.pc = "twice", !.twice = resolveVariables(rv.once, rv.context)]
  /\ UNCHANGED <<nodes, edges, logs, dataContext, isSimulating, runState, context,
                 errors, frames, inflight, trace, runs, callVars, webhookVars>>

NextResolve == RvResolve \/ RvResolveAgain

SpecResolve == InitResolve /\ [][NextResolve]_vars

\* C9 (as claimed): resolving what resolveVariables returned, in the same
\* context, returns it unchanged.
ResolveIdempotent == rv.pc = "twice" => rv.twice = rv.once

\* What a part is to become: the rendered value when the context has an entry
\* for the placeholder's node id and the entry a value for its field, the
\* part's own text otherwise.
Expected(part, ctx) ==
  IF /\ part.kind = "ref"
     /\ part.node \in DOMAIN ctx
     /\ part.field \in DOMAIN ctx[part.node]
     /\ ctx[part.node][part.field].t # "undef"
    THEN Render(ctx[part.node][part.field])
    ELSE part.text

RECURSIVE ConcatExpected(_, _)
ConcatExpected(ps, ctx) ==
  IF ps = <<>> THEN <<>> ELSE Expected(Head(ps), ctx) \o ConcatExpected(Tail(ps), ctx)

\* C10 (as claimed): a template that is no string is returned unchanged; in a
\* template made of text and {{nodeId.field}} placeholders, a placeholder
\* whose node id has no entry in the context, or whose entry has no value
\* for the field, stays as it is, and every other placeholder is replaced
\* by its value.
SoftFailResolution ==
  rv.pc # "start" =>
    IF rv.template.t # "str" THEN rv.once = rv.template
    ELSE (\A k \in 1..Len(rv.parts) : rv.parts[k].kind \in {"lit", "ref"})
           => rv.once = Str(ConcatExpected(rv.parts, rv.context))

\* The properties of the object a value is (those of the payload a Trigger
\* seeds as data; the other objects of the model have none that is read).
Members(v) ==
  IF v = Obj(<<"{order}">>)
    THEN [userId |-> Str(<<"user_123">>), customerId |-> Str(<<"cust_456">>),
          orderId |-> Str(<<"ord_789">>)]
    ELSE EmptyObject

\* What a placeholder with a longer path is to become: the value reached by
\* following every segment, the part's own text when a segment is missing.
ExpectedDeep(part, ctx) ==
  IF /\ part.kind = "deep"
     /\ part.node \in DOMAIN ctx
     /\ part.field \in DOMAIN ctx[part.node]
     /\ part.member \in DOMAIN Members(ctx[part.node][part.field])
    THEN Render(Members(ctx[part.node][part.field])[part.member])
    ELSE part.text

RECURSIVE ConcatExpectedDeep(_, _)
ConcatExpectedDeep(ps, ctx) ==
  IF ps = <<>> THEN <<>>
  ELSE ExpectedDeep(Head(ps), ctx) \o ConcatExpectedDeep(Tail(ps), ctx)

\* C11 (as claimed): in a template made of text and placeholders with more
\* than two segments, a placeholder becomes the value reached by following
\* every segment through the context, and stays as it is when a segment is
\* missing.
NestedPropertyAccess ==
  (/\ rv.pc # "start"
   /\ rv.template.t = "str"
   /\ \A k \in 1..Len(rv.parts) : rv.parts[k].kind \in {"lit", "deep"})
    => rv.once = Str(ConcatExpectedDeep(rv.parts, rv.context))

\* ------------------------------------------------------------------------
\* validateWorkflow
\* ------------------------------------------------------------------------

\* The most nodes and edges of a workflow handed to validateWorkflow.
MaxVwNodes == 3
MaxVwEdges == 3

\* The entries of errors.
NoNodesError == [kind |-> "Workflow must have at least one node", count |-> 0, path |-> <<>>]

NoTriggerError ==
  [kind |-> "Workflow must have at least one trigger node", count |-> 0, path |-> <<>>]

\* `Found ${disconnectedNodes.length} disconnected nodes`
DisconnectedError(n) == [kind |-> "Found N disconnected nodes", count |-> n, path |-> <<>>]

\* `Circular reference detected: ${[...path, nodeId].join(' -> ')}`
CircularError(path) == [kind |-> "Circular reference detected", count |-> 0, path |-> path]

\* workflow.nodes.some(node => node.type === 'trigger')
SomeTrigger(ns) == \E k \in 1..Len(ns) : ns[k].type = "trigger"

\* connectedNodeIds: the source and the target of every edge.
ConnectedNodeIds(es) ==
  {es[k].source : k \in 1..Len(es)} \cup {es[k].target : k \in 1..Len(es)}

\* The filter of disconnectedNodes, counting a Trigger node as well.
DisconnectedAnyType(node, connected) == node.id \notin connected

\* node.type !== 'trigger' && !connectedNodeIds.has(node.id)
IsDisconnected(node, connected) == node.type # "trigger" /\ node.id \notin connected

\* disconnectedNodes.length
DisconnectedCount(ns, es) ==
  Cardinality({k \in 1..Len(ns) : IsDisconnected(ns[k], ConnectedNodeIds(es))})

\* The keys of nodeMap.
NodeMapIds(ns) == {ns[k].id : k \in 1..Len(ns)}

\* nodeMap[nodeId].outgoing: the targets of the edges that leave nodeId, in
\* the order of workflow.edges.
RECURSIVE Outgoing(_, _)
Outgoing(nodeId, es) ==
  IF es = <<>> THEN <<>>
  ELSE (IF Head(es).source = nodeId THEN <<Head(es).target>> ELSE <<>>)
         \o Outgoing(nodeId, Tail(es))

\* The marks of nodeMap, the path array of one search and errors.
NoMarks(errs) == [visited |-> {}, inPath |-> {}, path |-> <<>>, errors |-> errs]

\* checkCircular(nodeId, path) and its loop over node.outgoing from position
\* k on; both return whether a cycle was found and the marks they leave.
RECURSIVE checkCircular(_, _, _, _)
RECURSIVE CheckTargets(_, _, _, _, _)
checkCircular(nodeId, ns, es, st) ==
  IF nodeId \notin NodeMapIds(ns)
    THEN [found |-> FALSE, st |-> st]
  ELSE IF nodeId \in st.inPath
    THEN [found |-> TRUE,
          st |-> [st EXCEPT !.errors = Append(@, CircularError(Append(st.path, nodeId)))]]
  ELSE IF nodeId \in st.visited
    THEN [found |-> FALSE, st |-> st]
  ELSE CheckTargets(nodeId, 1, ns, es,
                    [st EXCEPT !.visited = @ \cup {nodeId},
                               !.inPath = @ \cup {nodeId},
                               !.path = Append(@, nodeId)])

CheckTargets(nodeId, k, ns, es, st) ==
  IF k > Len(Outgoing(nodeId, es))
    THEN [found |-> FALSE,
          st |-> [st EXCEPT !.inPath = @ \ {nodeId},
                            !.path = SubSeq(@, 1, Len(@) - 1)]]
  ELSE LET r == checkCircular(Outgoing(nodeId, es)[k], ns, es, st)
       IN IF r.found THEN r ELSE CheckTargets(nodeId, k + 1, ns, es, r.st)

\* The search started from every node, whatever its type.
EveryNodeRoot(ns) == [k \in 1..Len(ns) |-> ns[k].id]

\* workflow.nodes.filter(node => node.type === 'trigger'), as ids.
RECURSIVE DfsRoots(_)
DfsRoots(ns) ==
  IF ns = <<>> THEN <<>>
  ELSE (IF Head(ns).type = "trigger" THEN <<Head(ns).id>> ELSE <<>>) \o DfsRoots(Tail(ns))

\* .forEach(node => checkCircular(node.id)): every search begins with an
\* empty path and finds the marks the searches before it left.
RECURSIVE CheckFromRoots(_, _, _, _)
CheckFromRoots(roots, ns, es, st) ==
  IF roots = <<>> THEN st
  ELSE CheckFromRoots(Tail(roots), ns, es,
                      checkCircular(Head(roots), ns, es, [st EXCEPT !.path = <<>>]).st)

\* validateWorkflow(workflow): { valid, errors }
validateWorkflow(ns, es) ==
  LET e1 == IF Len(ns) = 0 THEN <<NoNodesError>> ELSE <<>>
      e2 == IF ~SomeTrigger(ns) THEN <<NoTriggerError>> ELSE <<>>
      e3 == IF DisconnectedCount(ns, es) > 0
              THEN <<DisconnectedError(DisconnectedCount(ns, es))>> ELSE <<>>
      errs == CheckFromRoots(DfsRoots(ns), ns, es, NoMarks(e1 \o e2 \o e3)).errors
  IN [valid |-> Len(errs) = 0, errors |-> errs]

\* The workflows handed to validateWorkflow: nodes "1", "2", ... of either
\* type, and edges between these ids and "9", the id of no node.
VwNode(id, type) == [id |-> id, type |-> type]

VwIds == <<"1", "2", "3", "4", "5", "6">>

VwNodeLists ==
  UNION {{[k \in 1..n |-> VwNode(VwIds[k], types[k])] :
            types \in [1..n -> {"trigger", "action"}]} : n \in 0..MaxVwNodes}

VwEdge(source, target) == [source |-> source, target |-> target]

VwEdges == {VwEdge(s, t) : s, t \in {VwIds[k] : k \in 1..MaxVwNodes} \cup {"9"}}

VwEdgeLists == UNION {[1..n -> VwEdges] : n \in 0..MaxVwEdges}

\* The engine is not running and no resolveVariables call is being made.
EngineAtRest ==
  /\ nodes = <<>>
  /\ edges = <<>>
  /\ logs = <<>>
  /\ dataContext = EmptyObject
  /\ isSimulating = FALSE
  /\ runState = "NotStarted"
  /\ context = EmptyObject
  /\ errors = <<>>
  /\ frames = <<>>
  /\ inflight = {}
  /\ trace = <<>>
  /\ runs = 0
  /\ rv = RvIdle

InitValidate ==
  /\ EngineAtRest
  /\ svc = SvcIdle
  /\ registeredWebhooks = <<>>
  /\ webhookHistory = <<>>
  /\ wh = WhIdle
  /\ \E ns \in VwNodeLists :
       \E es \in VwEdgeLists :
         vw = [pc |-> "start", nodes |-> ns, edges |-> es, errors |-> <<>>, valid |-> FALSE]

\* validateWorkflow({ nodes, edges })
VwValidate ==
  /\ vw.pc = "start"
  /\ \E r \in {validateWorkflow(vw.nodes, vw.edges)} :
       vw' = [vw EXCEPT !.pc = "done", !.errors = r.errors, !.valid = r.valid]
  /\ UNCHANGED <<nodes, edges, logs, dataContext, isSimulating, runState, context,
                 errors, frames, inflight, trace, runs, rv, svc, webhookVars>>

NextValidate == VwValidate

SpecValidate == InitValidate /\ [][NextValidate]_vars

\* A cycle can be reached along edges from a Trigger node: some node that a
\* Trigger reaches (the Trigger itself included) reaches itself in one or
\* more steps. Edges to or from an id of no node lead nowhere.
VwSteps(ns, es) ==
  {<<es[k].source, es[k].target>> : k \in {j \in 1..Len(es) :
      es[j].source \in NodeMapIds(ns) /\ es[j].target \in NodeMapIds(ns)}}

RECURSIVE VwReachFrom(_, _)
VwReachFrom(set, steps) ==
  LET more == set \cup {p[2] : p \in {q \in steps : q[1] \in set}}
  IN IF more = set THEN set ELSE VwReachFrom(more, steps)

OnCycle(id, steps) ==
  id \in VwReachFrom({p[2] : p \in {q \in steps : q[1] = id}}, steps)

CycleReachableFromTrigger(ns, es) ==
  \E id \in VwReachFrom({ns[k].id : k \in {j \in 1..Len(ns) : ns[j].type = "trigger"}},
                        VwSteps(ns, es)) :
    OnCycle(id, VwSteps(ns, es))

HasCycleError(errs) == \E k \in 1..Len(errs) : errs[k].kind = "Circular reference detected"

\* C12: validateWorkflow reports a 'Circular reference detected' error, and
\* valid is false, if and only if a cycle can be reached along edges from a
\* Trigger node; a cycle no Trigger reaches gives no cycle error.
CycleDetection ==
  vw.pc = "done" =>
    /\ HasCycleError(vw.errors) <=> CycleReachableFromTrigger(vw.nodes, vw.edges)
    /\ HasCycleError(vw.errors) => ~vw.valid

\* The workflow 1 -> 2 -> 3 -> 2 with Trigger 1 was validated and the error
\* names that path.
CycleDetectionWitness ==
  /\ vw.pc = "done"
  /\ vw.nodes = <<VwNode("1", "trigger"), VwNode("2", "action"), VwNode("3", "action")>>
  /\ vw.edges = <<VwEdge("1", "2"), VwEdge("2", "3"), VwEdge("3", "2")>>
  /\ vw.errors = <<CircularError(<<"1", "2", "3", "2">>)>>
  /\ ~vw.valid

\* C13 (as claimed): a missing Trigger node is a warning, not an error: a
\* workflow with at least one node, no Trigger node, no cycle and no
\* disconnected node is valid.
MissingTriggerIsWarning ==
  (/\ vw.pc = "done"
   /\ Len(vw.nodes) > 0
   /\ ~SomeTrigger(vw.nodes)
   /\ ~HasCycleError(vw.errors)
   /\ DisconnectedCount(vw.nodes, vw.edges) = 0)
    => vw.valid

\* The number of non-Trigger nodes whose id is neither the source nor the
\* target of an edge.
Unattached(ns, es) ==
  Cardinality({k \in 1..Len(ns) :
    /\ ns[k].type # "trigger"
    /\ \A j \in 1..Len(es) : es[j].source # ns[k].id /\ es[j].target # ns[k].id})

\* C14: validateWorkflow reports one error 'Found N disconnected nodes'
\* exactly when N > 0, N being the number of non-Trigger nodes whose id is
\* no endpoint of an edge; the error carries the count alone.
DisconnectedByCount ==
  vw.pc = "done" =>
    LET found == {k \in 1..Len(vw.errors) : vw.errors[k].kind = "Found N disconnected nodes"}
        n == Unattached(vw.nodes, vw.edges)
    IN /\ Cardinality(found) = (IF n > 0 THEN 1 ELSE 0)
       /\ \A k \in found : vw.errors[k] = DisconnectedError(n)

\* Trigger 1 with no edge is not counted, node 2 has an edge no Trigger
\* reaches and is not counted, node 3 has no edge and is counted.
DisconnectedWitness ==
  /\ vw.pc = "done"
  /\ vw.nodes = <<VwNode("1", "trigger"), VwNode("2", "action"), VwNode("3", "action")>>
  /\ vw.edges = <<VwEdge("2", "9")>>
  /\ vw.errors = <<DisconnectedError(1)>>

\* ------------------------------------------------------------------------
\* IntegrationManager.execute and the provider-based services
\* ------------------------------------------------------------------------

\* The fields of a result that tell where it came from; a field the result
\* does not have is undefined.
Envelope(status, provider, database) ==
  [status |-> status, provider |-> provider, database |-> database]

\* A result without any of these fields (undefined, an array, a text).
NoEnvelope == Envelope(Undef, Undef, Undef)

\* A config object without any field.
EmptyConfig ==
  [provider |-> Undef, type |-> Undef, connection |-> Undef, query |-> Undef,
   to |-> Undef, subject |-> Undef, file |-> Undef, fileName |-> Undef,
   fileId |-> Undef, path |-> Undef, validateStatus |-> Undef, apiKey |-> Undef]

\* String.prototype.toLowerCase, word by word.
LowerWord(w) ==
  CASE w = "MySQL" -> "mysql"
    [] w = "Postgres" -> "postgres"
    [] OTHER -> w

toLowerCase(v) == [v EXCEPT !.s = [k \in 1..Len(v.s) |-> LowerWord(v.s[k])]]

\* this.services[serviceType]: a registered service, or what the services
\* object inherits under that name from Object.prototype, or undefined ("").
ServiceOf(serviceType) ==
  CASE serviceType \in Services -> serviceType
    [] serviceType = "constructor" -> "Object"
    [] serviceType = "toString" -> "Object.prototype.toString"
    [] OTHER -> ""

\* The operations of the provider-based services.
ProviderOperations ==
  [email |-> {"sendEmail"}, database |-> {"executeQuery"},
   fileStorage |-> {"uploadFile", "downloadFile", "listFiles"}]

\* The members m of a service object for which typeof service[m] is
\* 'function' (of the many, the ones the calls below name).
CallableMembers(target) ==
  CASE target \in DOMAIN ProviderOperations ->
         ProviderOperations[target]
           \cup (IF target = "email" THEN {"_sendWithMockProvider"} ELSE {})
    [] target = "api" -> {"makeRequest"}
    [] target = "webhook" -> {"registerWebhook"}
    [] target = "Object" -> {"keys"}
    [] target = "Object.prototype.toString" -> {"call"}
    [] OTHER -> {}

\* The switch of each operation: the handler of every named provider.
NamedProviders(operation) ==
  CASE operation = "sendEmail" ->
         ("sendgrid" :> "_sendWithSendGrid" @@ "mailchimp" :> "_sendWithMailchimp"
            @@ "smtp" :> "_sendWithSmtp")
    [] operation = "executeQuery" ->
         ("mysql" :> "_queryMySql" @@ "postgres" :> "_queryPostgres"
            @@ "mongodb" :> "_queryMongoDB" @@ "sqlite" :> "_querySqlite")
    [] operation = "uploadFile" ->
         ("s3" :> "_uploadToS3" @@ "dropbox" :> "_uploadToDropbox"
            @@ "google-drive" :> "_uploadToGoogleDrive" @@ "local" :> "_uploadToLocalStorage")
    [] operation = "downloadFile" ->
         ("s3" :> "_downloadFromS3" @@ "dropbox" :> "_downloadFromDropbox"
            @@ "google-drive" :> "_downloadFromGoogleDrive"
            @@ "local" :> "_downloadFromLocalStorage")
    [] operation = "listFiles" ->
         ("s3" :> "_listFilesFromS3" @@ "dropbox" :> "_listFilesFromDropbox"
            @@ "google-drive" :> "_listFilesFromGoogleDrive"
            @@ "local" :> "_listFilesFromLocalStorage")

\* The default of each switch.
DefaultHandler(operation) ==
  CASE operation = "sendEmail" -> "_sendWithMockProvider"
    [] operation = "executeQuery" -> "_queryMockDatabase"
    [] operation = "uploadFile" -> "_uploadToMockStorage"
    [] operation = "downloadFile" -> "_downloadFromMockStorage"
    [] operation = "listFiles" -> "_listFilesFromMockStorage"

\* Every operation validated nothing.
NothingRequired(operation, config) == ""

\* The check of the required fields: the message of the error thrown, ""
\* when the fields are there.
RequiredMissing(operation, config) ==
  CASE operation = "sendEmail" /\ (~Truthy(config.to) \/ ~Truthy(config.subject)) ->
         "Email recipient and subject are required"
    [] operation = "executeQuery"
         /\ (~Truthy(config.type) \/ ~Truthy(config.connection) \/ ~Truthy(config.query)) ->
         "Database type, connection, and query are required"
    [] operation = "uploadFile" /\ (~Truthy(config.file) \/ ~Truthy(config.fileName)) ->
         "File and fileName are required"
    [] operation = "downloadFile" /\ ~Truthy(config.fileId) ->
         "File ID or path is required"
    [] operation = "listFiles" /\ ~Truthy(config.path) ->
         "Path is required"
    [] OTHER -> ""

\* What each switch looks at: config.provider, config.type.toLowerCase()
\* for executeQuery.
Discriminator(operation, config) ==
  IF operation = "executeQuery" THEN toLowerCase(config.type) ELSE config.provider

\* The handler the switch of the operation calls.
ProviderHandler(operation, config) ==
  IF /\ Discriminator(operation, config).t = "str"
     /\ Len(Discriminator(operation, config).s) = 1
     /\ Discriminator(operation, config).s[1] \in DOMAIN NamedProviders(operation)
    THEN NamedProviders(operation)[Discriminator(operation, config).s[1]]
    ELSE DefaultHandler(operation)

\* process.env as the provider handlers read it, and the environments a call
\* is made in.
NoEnvironment == [SENDGRID_API_KEY |-> Undef, MAILCHIMP_API_KEY |-> Undef]

Environments ==
  [SENDGRID_API_KEY : {Undef, Str(<<"SG.env">>)},
   MAILCHIMP_API_KEY : {Undef, Str(<<"mc.env">>)}]

\* What the provider handlers return in the environment env, apiKey being
\* config.providerConfig?.apiKey. _sendWithSendGrid and _sendWithMailchimp
\* take the key of the config or else the key of the environment and throw
\* when there is neither; _sendWithSendGrid returns what apiService.makeRequest
\* returns. The other named handlers that need providerConfig throw without it.
HandlerOutcomes(handler, config, env) ==
  CASE handler = "_sendWithSendGrid" ->
         IF ~Truthy(OrElse(config.apiKey, env.SENDGRID_API_KEY))
           THEN {Rejected("SendGrid API key is required")}
           ELSE {Rejected("Failed to fetch"),
                 Rejected("API request failed with status 500"),
                 Resolved(Envelope(Num("200"), Undef, Undef))}
    [] handler = "_sendWithMailchimp" ->
         IF ~Truthy(OrElse(config.apiKey, env.MAILCHIMP_API_KEY))
           THEN {Rejected("Mailchimp API key is required")}
           ELSE {Resolved(Envelope(Str(<<"success">>), Str(<<"mailchimp">>), Undef))}
    [] handler = "_sendWithSmtp" ->
         {Rejected("SMTP host and port are required"),
          Resolved(Envelope(Str(<<"success">>), Str(<<"smtp">>), Undef))}
    [] handler = "_sendWithMockProvider" ->
         {Resolved(Envelope(Str(<<"success">>), Str(<<"mock">>), Undef))}
    [] handler = "_queryMySql" ->
         {Resolved(Envelope(Str(<<"success">>), Undef, Str(<<"mysql">>)))}
    [] handler = "_queryPostgres" ->
         {Resolved(Envelope(Str(<<"success">>), Undef, Str(<<"postgres">>)))}
    [] handler = "_queryMongoDB" ->
         {Resolved(Envelope(Str(<<"success">>), Undef, Str(<<"mongodb">>)))}
    [] handler = "_querySqlite" ->
         {Resolved(Envelope(Str(<<"success">>), Undef, Str(<<"sqlite">>)))}
    [] handler = "_queryMockDatabase" ->
         {Resolved(Envelope(Str(<<"success">>), Undef, Str(<<"mock">>)))}
    [] handler = "_uploadToS3" ->
         {Rejected("S3 bucket is required"),
          Resolved(Envelope(Str(<<"success">>), Str(<<"s3">>), Undef))}
    [] handler = "_uploadToDropbox" ->
         {Rejected("Dropbox access token is required"),
          Resolved(Envelope(Str(<<"success">>), Str(<<"dropbox">>), Undef))}
    [] handler = "_uploadToGoogleDrive" ->
         {Rejected("Google Drive access token is required"),
          Resolved(Envelope(Str(<<"success">>), Str(<<"google-drive">>), Undef))}
    [] handler = "_uploadToLocalStorage" ->
         {Resolved(Envelope(Str(<<"success">>), Str(<<"local">>), Undef))}
    [] handler \in {"_uploadToMockStorage", "_downloadFromMockStorage",
                    "_listFilesFromMockStorage"} ->
         {Resolved(Envelope(Str(<<"success">>), Str(<<"mock">>), Undef))}
    [] OTHER -> {Resolved(NoEnvelope)}

\* What the other callable members return: makeRequest as the engine sees it,
\* registerWebhook of a config without handler, Object.keys(config),
\* Object.prototype.toString.call(config).
MemberOutcomes(operation, config) ==
  CASE operation = "makeRequest" ->
         {IF o.ok THEN Resolved(Envelope(o.value.status, Undef, Undef)) ELSE o :
            o \in MakeRequest(config)}
    [] operation = "registerWebhook" -> {Rejected("Webhook path and handler are required")}
    [] operation = "_sendWithMockProvider" -> HandlerOutcomes(operation, config, NoEnvironment)
    [] OTHER -> {Resolved(NoEnvelope)}

\* The calls made: every provider operation through its own service with
\* each required field there, missing or empty and every discriminator, and
\* every pair of a service name and a member name with two configs.
SvcTexts(words) == {Undef, Str(<<>>)} \cup {Str(<<w>>) : w \in words}

SvcProviderCalls ==
  {[service |-> "email", operation |-> "sendEmail",
    config |-> [EmptyConfig EXCEPT !.to = a, !.subject = b, !.provider = p, !.apiKey = k]] :
      a \in SvcTexts({"a@b.c"}), b \in SvcTexts({"Hello"}),
      p \in SvcTexts({"sendgrid", "mailchimp", "smtp", "mock", "other"}),
      k \in {Undef, Str(<<"key.config">>)}}
  \cup
  {[service |-> "database", operation |-> "executeQuery",
    config |-> [EmptyConfig EXCEPT !.type = a, !.connection = b, !.query = c]] :
      a \in SvcTexts({"mysql", "MySQL", "postgres", "mongodb", "sqlite", "oracle", "mock"}),
      b \in SvcTexts({"db://host"}), c \in SvcTexts({"select"})}
  \cup
  {[service |-> "fileStorage", operation |-> "uploadFile",
    config |-> [EmptyConfig EXCEPT !.file = a, !.fileName = b, !.provider = p]] :
      a \in {Undef, Obj(<<"{file}">>)}, b \in SvcTexts({"a.txt"}),
      p \in SvcTexts({"s3", "dropbox", "google-drive", "local", "mock", "ftp"})}
  \cup
  {[service |-> "fileStorage", operation |-> op,
    config |-> [EmptyConfig EXCEPT !.fileId = a, !.path = a, !.provider = p]] :
      op \in {"downloadFile", "listFiles"}, a \in SvcTexts({"/docs"}),
      p \in SvcTexts({"s3", "dropbox", "google-drive", "local", "mock", "ftp"})}

SvcRouterCalls ==
  {[service |-> s, operation |-> op, config |-> c] :
     s \in Services \cup {"sms", "constructor", "toString"},
     op \in {"sendEmail", "executeQuery", "uploadFile", "makeRequest", "registerWebhook",
             "_sendWithMockProvider", "registeredWebhooks", "providers", "keys", "call"},
     c \in {EmptyConfig,
            [EmptyConfig EXCEPT !.to = Str(<<"a@b.c">>), !.subject = Str(<<"Hello">>),
                                !.type = Str(<<"mysql">>), !.connection = Str(<<"db://host">>),
                                !.query = Str(<<"select">>), !.file = Obj(<<"{file}">>),
                                !.fileName = Str(<<"a.txt">>),
                                !.validateStatus = Bool(TRUE)]}}

InitServices ==
  /\ EngineAtRest
  /\ vw = VwIdle
  /\ registeredWebhooks = <<>>
  /\ webhookHistory = <<>>
  /\ wh = WhIdle
  /\ \E call \in SvcProviderCalls \cup SvcRouterCalls, env \in Environments :
       svc = [pc |-> "start", service |-> call.service, operation |-> call.operation,
              config |-> call.config, target |-> "", invoked |-> <<>>, outcome |-> <<>>,
              env |-> env]

\* A member of a service was invoked, as an operation or as a provider handler.
Invoked(kind, name) == [kind |-> kind, name |-> name]

\* IntegrationManager.execute(serviceType, operation, config) up to the call
\* of service[operation](config).
SvcExecute ==
  /\ svc.pc = "start"
  /\ \E target \in {ServiceOf(svc.service)} :
       IF target = ""
         THEN svc' = [svc EXCEPT !.pc = "done",
                        !.outcome = Rejected("Unknown service type")]
       ELSE IF svc.operation \notin CallableMembers(target)
         THEN svc' = [svc EXCEPT !.pc = "done", !.target = target,
                        !.outcome = Rejected("Operation not supported")]
       ELSE svc' = [svc EXCEPT !.pc = "operation", !.target = target,
                      !.invoked = Append(@, Invoked("operation", svc.operation))]
  /\ UNCHANGED <<nodes, edges, logs, dataContext, isSimulating, runState, context,
                 errors, frames, inflight, trace, runs, rv, vw, webhookVars>>

\* The invoked member runs up to its return, its throw or the call of a
\* provider handler; what it throws or returns is what execute settles with.
SvcOperation ==
  /\ svc.pc = "operation"
  /\ IF svc.target \in DOMAIN ProviderOperations
          /\ svc.operation \in ProviderOperations[svc.target]
       THEN \E error \in {RequiredMissing(svc.operation, svc.config)} :
              IF error # ""
                THEN svc' = [svc EXCEPT !.pc = "done", !.outcome = Rejected(error)]
                ELSE svc' = [svc EXCEPT !.pc = "handler",
                               !.invoked = Append(@,
                                 Invoked("handler", ProviderHandler(svc.operation, svc.config)))]
       ELSE \E outcome \in MemberOutcomes(svc.operation, svc.config) :
              svc' = [svc EXCEPT !.pc = "done", !.outcome = outcome]
  /\ UNCHANGED <<nodes, edges, logs, dataContext, isSimulating, runState, context,
                 errors, frames, inflight, trace, runs, rv, vw, webhookVars>>

\* The provider handler returns or throws, and so do the operation and execute.
SvcHandler ==
  /\ svc.pc = "handler"
  /\ \E outcome \in HandlerOutcomes(svc.invoked[Len(svc.invoked)].name, svc.config,
                                      svc.env) :
       svc' = [svc EXCEPT !.pc = "done", !.outcome = outcome]
  /\ UNCHANGED <<nodes, edges, logs, dataContext, isSimulating, runState, context,
                 errors, frames, inflight, trace, runs, rv, vw, webhookVars>>

NextServices == SvcExecute \/ SvcOperation \/ SvcHandler

SpecServices == InitServices /\ [][NextServices]_vars

\* C15 (as claimed): execute rejects a service that is not one of the five
\* registered kinds and an operation that is no callable member of the
\* service, in both cases without invoking anything; otherwise it invokes
\* that one operation once and settles with what the operation returned or
\* threw.
RouterDispatch ==
  svc.pc = "done" =>
    IF svc.service \notin {"api", "email", "database", "fileStorage", "webhook"}
      THEN ~svc.outcome.ok /\ svc.invoked = <<>>
    ELSE IF svc.operation \notin CallableMembers(svc.service)
      THEN ~svc.outcome.ok /\ svc.invoked = <<>>
    ELSE /\ svc.invoked # <<>>
         /\ svc.invoked[1] = Invoked("operation", svc.operation)
         /\ \A k \in 2..Len(svc.invoked) : svc.invoked[k].kind # "operation"

\* A provider operation was invoked on its own service.
ProviderCall ==
  /\ svc.invoked # <<>>
  /\ svc.target \in DOMAIN ProviderOperations
  /\ svc.invoked[1] = Invoked("operation", svc.operation)
  /\ svc.operation \in ProviderOperations[svc.target]

Absent(v) == v = Undef \/ v = Str(<<>>)

\* A field the operation requires is missing or empty.
FieldsMissing ==
  CASE svc.operation = "executeQuery" ->
         Absent(svc.config.type) \/ Absent(svc.config.connection) \/ Absent(svc.config.query)
    [] svc.operation = "sendEmail" -> Absent(svc.config.to) \/ Absent(svc.config.subject)
    [] svc.operation = "uploadFile" -> Absent(svc.config.file) \/ Absent(svc.config.fileName)
    [] svc.operation = "downloadFile" -> Absent(svc.config.fileId)
    [] svc.operation = "listFiles" -> Absent(svc.config.path)
    [] OTHER -> FALSE

\* C16: a provider operation called without a required field rejects, and
\* no provider handler, named or simulated, is invoked in that call.
RequiredFieldsFirst ==
  (ProviderCall /\ FieldsMissing) =>
    /\ svc.pc # "handler"
    /\ \A k \in 1..Len(svc.invoked) : svc.invoked[k].kind # "handler"
    /\ svc.pc = "done" => ~svc.outcome.ok

\* executeQuery of a named provider without connection was rejected and only
\* executeQuery itself was invoked.
RequiredFieldsWitness ==
  /\ svc.pc = "done"
  /\ svc.operation = "executeQuery"
  /\ svc.config.type = Str(<<"mysql">>)
  /\ svc.config.connection = Undef
  /\ svc.config.query = Str(<<"select">>)
  /\ svc.invoked = <<Invoked("operation", "executeQuery")>>
  /\ svc.outcome = Rejected("Database type, connection, and query are required")

\* The discriminator of the call is one of the named providers of the operation.
NamedDiscriminator ==
  CASE svc.operation = "sendEmail" ->
         svc.config.provider \in {Str(<<w>>) : w \in {"sendgrid", "mailchimp", "smtp"}}
    [] svc.operation = "executeQuery" ->
         svc.config.type \in {Str(<<w>>) : w \in
           {"mysql", "MySQL", "postgres", "Postgres", "mongodb", "sqlite"}}
    [] OTHER ->
         svc.config.provider \in {Str(<<w>>) : w \in {"s3", "dropbox", "google-drive", "local"}}

\* C17 (as claimed): a provider operation called with its required fields and
\* a discriminator that is absent or names no provider resolves with status
\* 'success' and provider 'mock'; a call routed to a named provider never
\* returns provider 'mock'.
DefaultSimulatedProvider ==
  (ProviderCall /\ ~FieldsMissing /\ svc.pc = "done") =>
    IF NamedDiscriminator
      THEN svc.outcome.ok => svc.outcome.value.provider # Str(<<"mock">>)
      ELSE /\ svc.outcome.ok
           /\ svc.outcome.value.status = Str(<<"success">>)
           /\ svc.outcome.value.provider = Str(<<"mock">>)

\* ------------------------------------------------------------------------
\* WebhookService
\* ------------------------------------------------------------------------

\* The most webhook ids ever generated and the most requests ever recorded.
MaxWebhooks == 2
MaxHistory == 2

\* The configs handed to registerWebhook: path, handler (there or not),
\* authType and authConfig.
RegisterConfigs ==
  [path : {Undef, Str(<<"/a">>), Str(<<"/b">>)},
   handler : BOOLEAN,
   authType : {Undef, Str(<<"token">>), Str(<<"hmac">>), Str(<<"basic">>)},
   authConfig : {[token |-> Undef, secret |-> Undef],
                 [token |-> Str(<<"s3cret">>), secret |-> Str(<<"key">>)]}]

\* The headers of a request: x-webhook-token, authorization, x-webhook-signature.
Headers(xtoken, authorization, signature) ==
  [xtoken |-> xtoken, authorization |-> authorization, signature |-> signature]

RequestHeaders ==
  {Headers(Undef, Undef, Undef),
   Headers(Str(<<"s3cret">>), Undef, Undef),
   Headers(Str(<<"wrong">>), Undef, Undef),
   Headers(Undef, Str(<<"s3cret">>), Undef),
   Headers(Str(<<"wrong">>), Str(<<"s3cret">>), Undef),
   Headers(Undef, Undef, Str(<<"sig">>))}

\* The paths requested.
RequestPaths == {Str(<<"/a">>), Str(<<"/b">>), Str(<<"/none">>)}

\* The webhook registerWebhook stores: the n-th id generated, authType
\* 'none' unless given.
Webhook(config, n) ==
  [id |-> n, path |-> config.path, authType |-> OrElse(config.authType, Str(<<"none">>)),
   authConfig |-> config.authConfig]

\* registerWebhook storing the webhook whatever the config holds.
RegisteredUnvalidated(regs, config, n) == Append(regs, Webhook(config, n))

\* this.registeredWebhooks after registerWebhook(config): the config is
\* validated, then the webhook is stored under its new id.
Registered(regs, config, n) ==
  IF ~Truthy(config.path) \/ ~config.handler THEN regs ELSE Append(regs, Webhook(config, n))

\* this.registeredWebhooks.has(webhookId)
HasWebhook(regs, webhookId) == \E k \in 1..Len(regs) : regs[k].id = webhookId

\* this.registeredWebhooks.get(webhookId)
GetWebhook(regs, webhookId) == regs[CHOOSE k \in 1..Len(regs) : regs[k].id = webhookId]

\* Array.from(values()).find(hook => hook.path === path): the position of
\* the first registration with the path, 0 for undefined.
FindByPath(regs, path) ==
  IF \E k \in 1..Len(regs) : regs[k].path = path
    THEN CHOOSE k \in 1..Len(regs) :
           regs[k].path = path /\ \A j \in 1..(k - 1) : regs[j].path # path
    ELSE 0

\* Authentication that accepts every request.
AuthAlwaysPasses(webhook, headers) == ""

\* _validateWebhookAuth(webhook, headers): the message of the error thrown,
\* "" when the request passes.
validateWebhookAuth(webhook, headers) ==
  CASE webhook.authType = Str(<<"token">>) ->
         IF \/ ~Truthy(OrElse(headers.xtoken, headers.authorization))
            \/ OrElse(headers.xtoken, headers.authorization) # webhook.authConfig.token
           THEN "Invalid webhook token" ELSE ""
    [] webhook.authType = Str(<<"hmac">>) ->
         IF ~Truthy(headers.signature) THEN "Missing webhook signature" ELSE ""
    [] webhook.authType = Str(<<"none">>) -> ""
    [] OTHER -> "Unsupported authentication type"

\* The headers testWebhook sends.
TestHeaders(webhook) ==
  [xtoken |-> IF webhook.authType = Str(<<"token">>) /\ Truthy(webhook.authConfig.token)
                THEN webhook.authConfig.token ELSE Undef,
   authorization |-> Undef,
   signature |-> IF /\ ~(webhook.authType = Str(<<"token">>)
                           /\ Truthy(webhook.authConfig.token))
                    /\ webhook.authType = Str(<<"hmac">>)
                    /\ Truthy(webhook.authConfig.secret)
                   THEN Str(<<"mock-signature-for-testing">>) ELSE Undef]

\* The request bodies and test payloads: the empty object, which is the
\* default of testWebhook's payload parameter, and another one.
EmptyBody == "{}"

Bodies == {EmptyBody, "{event: 'test'}"}

\* The body of the requests made of processWebhook.
RequestBody == "{order: 7}"

\* The entry processWebhook records; its headers and body are read nowhere.
HistoryEntry(webhook, path, timestamp) ==
  [webhookId |-> webhook.id, path |-> path, timestamp |-> timestamp]

\* new Date() when an entry is recorded: the millisecond of the entry before
\* it or a later one, counted from the first entry.
Timestamps(history) ==
  IF history = <<>> THEN {1}
  ELSE {history[Len(history)].timestamp, history[Len(history)].timestamp + 1}

\* A history that keeps the latest entry only.
OnlyLatest(history, entry) == <<entry>>

\* this.webhookHistory.push(historyEntry)
Recorded(history, entry) == Append(history, entry)

\* What a call of the service leaves as its outcome when no handler ran.
Outcome(op, ok, error, result) ==
  [wh EXCEPT !.op = op, !.ok = ok, !.error = error, !.result = result,
             !.handler = 0, !.body = ""]

\* The body of processWebhook(config): the webhook is looked up by path, the
\* request is authenticated, recorded, and handed to the handler, which
\* returns or throws.
Process(op, path, headers, body) ==
  \E k \in {FindByPath(registeredWebhooks, path)} :
    IF k = 0
      THEN /\ wh' = Outcome(op, FALSE, "No webhook registered for path", <<>>)
           /\ UNCHANGED webhookHistory
    ELSE \E error \in {validateWebhookAuth(registeredWebhooks[k], headers)} :
      IF error # ""
        THEN /\ wh' = Outcome(op, FALSE, error, <<>>)
             /\ UNCHANGED webhookHistory
        ELSE /\ Len(webhookHistory) < MaxHistory
             /\ \E timestamp \in Timestamps(webhookHistory) :
                  webhookHistory' =
                    Recorded(webhookHistory,
                             HistoryEntry(registeredWebhooks[k], path, timestamp))
             /\ \E handlerOk \in BOOLEAN :
                  wh' = [wh EXCEPT !.op = op, !.ok = handlerOk, !.result = <<>>,
                           !.error = IF handlerOk THEN "" ELSE "<the handler's error>",
                           !.handled = @ + 1,
                           !.handler = registeredWebhooks[k].id,
                           !.body = body]

\* registerWebhook(config)
RegisterWebhook(config) ==
  /\ wh.ids < MaxWebhooks
  /\ registeredWebhooks' = Registered(registeredWebhooks, config, wh.ids + 1)
  /\ IF ~Truthy(config.path) \/ ~config.handler
       THEN wh' = Outcome("registerWebhook", FALSE,
                          "Webhook path and handler function are required", <<>>)
       ELSE wh' = [Outcome("registerWebhook", TRUE, "", <<>>) EXCEPT !.ids = @ + 1]
  /\ UNCHANGED <<nodes, edges, logs, dataContext, isSimulating, runState, context,
                 errors, frames, inflight, trace, runs, rv, callVars, webhookHistory>>

\* processWebhook({ path, headers, body })
ProcessWebhook(path, headers) ==
  /\ Process("processWebhook", path, headers, RequestBody)
  /\ UNCHANGED <<nodes, edges, logs, dataContext, isSimulating, runState, context,
                 errors, frames, inflight, trace, runs, rv, callVars, registeredWebhooks>>

\* The history as it is, whichever id is given.
AllEntries(history, webhookId) == history

\* history.filter(entry => entry.webhookId === config.webhookId), made only
\* when an id is given (0 standing for none).
Wanted(history, webhookId) ==
  SelectSeq(history, LAMBDA entry : webhookId = 0 \/ entry.webhookId = webhookId)

\* history.sort((a, b) => new Date(b.timestamp) - new Date(a.timestamp)):
\* the later timestamp first, entries of one timestamp in the order they had.
RECURSIVE NewestFirst(_)
NewestFirst(history) ==
  IF history = <<>> THEN <<>>
  ELSE LET last   == history[Len(history)]
           sorted == NewestFirst(SubSeq(history, 1, Len(history) - 1))
       IN SelectSeq(sorted, LAMBDA entry : entry.timestamp >= last.timestamp)
            \o <<last>>
            \o SelectSeq(sorted, LAMBDA entry : entry.timestamp < last.timestamp)

\* The entries getWebhookHistory returns: those of the webhook when an id is
\* given, newest first, at most limit when a limit above 0 is given.
HistoryOf(history, webhookId, limit) ==
  LET sorted == NewestFirst(Wanted(history, webhookId))
  IN IF limit > 0 /\ limit < Len(sorted)
       THEN SubSeq(sorted, 1, limit)
       ELSE sorted

\* getWebhookHistory({ webhookId, limit }), 0 standing for a field not given.
GetWebhookHistory(webhookId, limit) ==
  /\ wh' = Outcome("getWebhookHistory", TRUE, "", HistoryOf(webhookHistory, webhookId, limit))
  /\ UNCHANGED <<nodes, edges, logs, dataContext, isSimulating, runState, context,
                 errors, frames, inflight, trace, runs, rv, callVars, registeredWebhooks,
                 webhookHistory>>

\* deleteWebhook(webhookId)
DeleteWebhook(webhookId) ==
  /\ IF ~HasWebhook(registeredWebhooks, webhookId)
       THEN /\ wh' = Outcome("deleteWebhook", FALSE, "Webhook not found", <<>>)
            /\ UNCHANGED registeredWebhooks
       ELSE /\ wh' = Outcome("deleteWebhook", TRUE, "", <<>>)
            /\ registeredWebhooks' =
                 SelectSeq(registeredWebhooks, LAMBDA hook : hook.id # webhookId)
  /\ UNCHANGED <<nodes, edges, logs, dataContext, isSimulating, runState, context,
                 errors, frames, inflight, trace, runs, rv, callVars, webhookHistory>>

\* The body of testWebhook(webhookId, payload).
Test(op, webhookId, payload) ==
  IF ~HasWebhook(registeredWebhooks, webhookId)
    THEN /\ wh' = Outcome(op, FALSE, "Webhook not found", <<>>)
         /\ UNCHANGED webhookHistory
    ELSE \E webhook \in {GetWebhook(registeredWebhooks, webhookId)} :
           Process(op, webhook.path, TestHeaders(webhook), payload)

\* testWebhook(webhookId, payload), called on the service.
TestWebhook(webhookId) ==
  /\ \E payload \in Bodies : Test("testWebhook", webhookId, payload)
  /\ UNCHANGED <<nodes, edges, logs, dataContext, isSimulating, runState, context,
                 errors, frames, inflight, trace, runs, rv, callVars, registeredWebhooks>>

\* integrationManager.execute('webhook', 'testWebhook', webhookId, payload):
\* execute has the parameters (serviceType, operation, config) and calls
\* service[operation](config), so testWebhook runs with its default payload.
ExecuteTestWebhook(webhookId, payload) ==
  /\ payload \in Bodies
  /\ Test("execute testWebhook", webhookId, EmptyBody)
  /\ UNCHANGED <<nodes, edges, logs, dataContext, isSimulating, runState, context,
                 errors, frames, inflight, trace, runs, rv, callVars, registeredWebhooks>>

\* The ids handed to the calls: every id generated, and one never generated.
WebhookIds == 1..(MaxWebhooks + 1)

\* The limits handed to getWebhookHistory: a negative one, none, and
\* positive ones up to the length the history can have.
Limits == (0 - 1)..MaxHistory

InitWebhook ==
  /\ EngineAtRest
  /\ ServicesAtRest

NextWebhook ==
  \/ \E config \in RegisterConfigs : RegisterWebhook(config)
  \/ \E path \in RequestPaths, headers \in RequestHeaders : ProcessWebhook(path, headers)
  \/ \E webhookId \in {0} \cup WebhookIds, limit \in Limits :
       GetWebhookHistory(webhookId, limit)
  \/ \E webhookId \in WebhookIds : DeleteWebhook(webhookId)
  \/ \E webhookId \in WebhookIds : TestWebhook(webhookId)
  \/ \E webhookId \in WebhookIds, payload \in Bodies :
       ExecuteTestWebhook(webhookId, payload)

SpecWebhook == InitWebhook /\ [][NextWebhook]_vars

\* The WebhookService in use while workflows run: two of the workflows over
\* one edge list, and fewer configs, paths and headers than in SpecWebhook.
InitWebhookRun ==
  /\ ServicesAtRest
  /\ nodes \in {Workflows[1], Workflows[3]}
  /\ edges = <<[source |-> "1", target |-> "2"], [source |-> "2", target |-> "3"],
               [source |-> "1", target |-> "4"]>>
  /\ logs = <<>>
  /\ dataContext = EmptyObject
  /\ isSimulating = FALSE
  /\ runState = "NotStarted"
  /\ context = EmptyObject
  /\ errors = <<>>
  /\ frames = <<>>
  /\ inflight = {}
  /\ trace = <<>>
  /\ runs = 0
  /\ rv = RvIdle

NextWebhookRun ==
  \/ StartRun
  \/ RunStep
  \/ \E config \in {c \in RegisterConfigs :
                      /\ c.path \in {Undef, Str(<<"/a">>)}
                      /\ c.authType \in {Undef, Str(<<"token">>)}
                      /\ Truthy(c.authConfig.token)} :
       RegisterWebhook(config)
  \/ \E path \in {Str(<<"/a">>), Str(<<"/none">>)},
        headers \in {h \in RequestHeaders : h.authorization = Undef /\ h.signature = Undef} :
       ProcessWebhook(path, headers)
  \/ \E webhookId \in 0..1 : GetWebhookHistory(webhookId, 0)
  \/ \E webhookId \in WebhookIds : DeleteWebhook(webhookId)
  \/ \E webhookId \in WebhookIds : TestWebhook(webhookId)

SpecWebhookRun == InitWebhookRun /\ [][NextWebhookRun]_vars

\* The token a request presents: x-webhook-token, else authorization.
PresentedToken(headers) ==
  IF headers.xtoken # Undef THEN headers.xtoken ELSE headers.authorization

\* The request is one the service is to refuse: no webhook has the path, or
\* the webhook found asks for a token and the token is absent or another, or
\* it asks for a signature and none is sent.
Refused(path, headers) ==
  LET k == FindByPath(registeredWebhooks, path)
  IN \/ \A j \in 1..Len(registeredWebhooks) : registeredWebhooks[j].path # path
     \/ /\ k # 0
        /\ registeredWebhooks[k].authType = Str(<<"token">>)
        /\ \/ PresentedToken(headers) = Undef
           \/ PresentedToken(headers) # registeredWebhooks[k].authConfig.token
     \/ /\ k # 0
        /\ registeredWebhooks[k].authType = Str(<<"hmac">>)
        /\ headers.signature = Undef

\* C18: processWebhook rejects a path no webhook has, a missing or wrong
\* token for authType 'token' and a missing signature for authType 'hmac',
\* and then leaves webhookHistory as it was and invokes no handler; with
\* authType 'none' authentication always passes.
WebhookFailurePaths ==
  [][wh'.op = "processWebhook" =>
     \A path \in RequestPaths, headers \in RequestHeaders :
       ProcessWebhook(path, headers) =>
         /\ Refused(path, headers) =>
              /\ ~wh'.ok
              /\ wh'.error \in {"No webhook registered for path", "Invalid webhook token",
                                "Missing webhook signature"}
              /\ webhookHistory' = webhookHistory
              /\ wh'.handled = wh.handled
         /\ (/\ FindByPath(registeredWebhooks, path) # 0
             /\ registeredWebhooks[FindByPath(registeredWebhooks, path)].authType
                  = Str(<<"none">>)) =>
              /\ wh'.handled = wh.handled + 1
              /\ Len(webhookHistory') = Len(webhookHistory) + 1]_vars

\* A request with a wrong token for a webhook that asks for a token was
\* rejected; nothing was recorded and no handler has run.
WebhookFailureWitness ==
  /\ wh.op = "processWebhook"
  /\ ~wh.ok
  /\ wh.error = "Invalid webhook token"
  /\ Len(registeredWebhooks) = 1
  /\ registeredWebhooks[1].authType = Str(<<"token">>)
  /\ registeredWebhooks[1].authConfig.token = Str(<<"s3cret">>)
  /\ webhookHistory = <<>>
  /\ wh.handled = 0

\* C19 (as claimed): no two registrations have the same path.
WebhookPathsUnique ==
  \A i, j \in 1..Len(registeredWebhooks) :
    i # j => registeredWebhooks[i].path # registeredWebhooks[j].path

\* C20: the registry changes only in a registerWebhook call that passes
\* validation and in a deleteWebhook call for a registered id; processWebhook,
\* testWebhook, getWebhookHistory, a failed registerWebhook or deleteWebhook
\* and every step of a workflow run leave it as it was.
RegistryChangedOnlyByRegisterAndDelete ==
  [][registeredWebhooks' # registeredWebhooks =>
       \/ \E config \in RegisterConfigs :
            /\ RegisterWebhook(config)
            /\ Truthy(config.path) /\ config.handler
            /\ wh'.ok
       \/ \E webhookId \in WebhookIds :
            /\ DeleteWebhook(webhookId)
            /\ HasWebhook(registeredWebhooks, webhookId)
            /\ wh'.ok]_vars

\* A workflow run has completed with a webhook registered, after a request
\* to it was processed and a registerWebhook or deleteWebhook call failed.
RegistryFrameWitness ==
  /\ runState = "Completed"
  /\ Len(registeredWebhooks) = 1
  /\ Len(webhookHistory) > 0
  /\ wh.op \in {"registerWebhook", "deleteWebhook"}
  /\ ~wh.ok

\* The number of positions of seq that hold entry.
Occurrences(seq, entry) == Cardinality({i \in 1..Len(seq) : seq[i] = entry})

\* The recorded entries a call with webhookId is to return, in recorded order.
EntriesOf(webhookId) ==
  SelectSeq(webhookHistory, LAMBDA entry : webhookId = 0 \/ entry.webhookId = webhookId)

\* C21: getWebhookHistory returns exactly the recorded entries whose
\* webhookId is the given id (all entries when no id is given), ordered
\* newest-first by timestamp, cut to the first limit entries when a positive
\* limit is given and whole otherwise, and leaves webhookHistory as it was.
HistoryQuery ==
  [][wh'.op = "getWebhookHistory" =>
     \A webhookId \in {0} \cup WebhookIds, limit \in Limits :
       GetWebhookHistory(webhookId, limit) =>
         LET returned == wh'.result
             entries  == EntriesOf(webhookId)
             kept     == IF limit > 0 /\ limit < Len(entries) THEN limit ELSE Len(entries)
         IN /\ webhookHistory' = webhookHistory
            /\ wh'.ok
            /\ Len(returned) = kept
            /\ \A i \in 1..Len(returned) :
                 /\ Occurrences(returned, returned[i]) <= Occurrences(entries, returned[i])
                 /\ \A j \in i..Len(returned) :
                      returned[i].timestamp >= returned[j].timestamp
            /\ \A i \in 1..Len(entries) :
                 Occurrences(returned, entries[i]) < Occurrences(entries, entries[i])
                   => \A j \in 1..Len(returned) :
                        returned[j].timestamp >= entries[i].timestamp]_vars

\* C21 witness: a query for one webhook with limit 1 has returned the newer
\* of two entries recorded at different times while the history holds an
\* entry of another webhook, or of the same one, before it.
HistoryQueryWitness ==
  /\ wh.op = "getWebhookHistory"
  /\ Len(wh.result) = 1
  /\ Len(webhookHistory) = 2
  /\ webhookHistory[1].timestamp < webhookHistory[2].timestamp
  /\ wh.result[1] = webhookHistory[2]

\* The errors with which processWebhook refuses a request before recording it.
RefusalErrors ==
  {"No webhook registered for path", "Invalid webhook token", "Missing webhook signature",
   "Unsupported authentication type"}

\* C28: webhookHistory grows by exactly one entry in each processWebhook call
\* that finds its webhook and passes authentication, also when the handler
\* then throws; a refused call, registerWebhook, getWebhookHistory and
\* deleteWebhook leave it as it was, and no step removes or alters an entry
\* recorded before.
HistoryAppendOnly ==
  [][/\ Len(webhookHistory') >= Len(webhookHistory)
     /\ SubSeq(webhookHistory', 1, Len(webhookHistory)) = webhookHistory
     /\ (/\ wh'.op = "processWebhook"
         /\ \E path \in RequestPaths, headers \in RequestHeaders :
              ProcessWebhook(path, headers))
          => IF wh'.error \in RefusalErrors
               THEN webhookHistory' = webhookHistory /\ wh'.handled = wh.handled
               ELSE /\ Len(webhookHistory') = Len(webhookHistory) + 1
                    /\ wh'.handled = wh.handled + 1
                    /\ webhookHistory'[Len(webhookHistory')].webhookId = wh'.handler
     /\ wh'.op \in {"registerWebhook", "getWebhookHistory", "deleteWebhook"}
          => webhookHistory' = webhookHistory]_vars

\* C28 witness: a processWebhook call whose handler threw has left its entry
\* behind the entry of a webhook that has been deleted since.
HistoryAppendOnlyWitness ==
  /\ wh.op = "processWebhook"
  /\ ~wh.ok
  /\ wh.error = "<the handler's error>"
  /\ Len(webhookHistory) = 2
  /\ webhookHistory[2].webhookId = wh.handler
  /\ ~HasWebhook(registeredWebhooks, webhookHistory[1].webhookId)

\* C23 (as claimed): when the webhook with id w is registered with authType
\* 'token' and a configured token, execute('webhook', 'testWebhook', w, p)
\* passes the lookup and the authentication and invokes the handler
\* registered for w with body p.
RegisterThenTest ==
  [][wh'.op = "execute testWebhook" =>
     \A w \in WebhookIds, p \in Bodies :
       (/\ ExecuteTestWebhook(w, p)
        /\ HasWebhook(registeredWebhooks, w)
        /\ GetWebhook(registeredWebhooks, w).authType = Str(<<"token">>)
        /\ Truthy(GetWebhook(registeredWebhooks, w).authConfig.token))
       => /\ wh'.error \notin RefusalErrors \cup {"Webhook not found"}
          /\ wh'.handler = w
          /\ wh'.body = p]_vars

\* C22 (as claimed): sendEmail with provider 'sendgrid' or 'mailchimp', its
\* required fields and no providerConfig.apiKey rejects with the 'API key is
\* required' error of the provider in every environment.
CredentialsFromConfigOnly ==
  (/\ svc.pc = "done"
   /\ ProviderCall
   /\ svc.operation = "sendEmail"
   /\ ~FieldsMissing
   /\ svc.config.provider \in {Str(<<"sendgrid">>), Str(<<"mailchimp">>)}
   /\ ~Truthy(svc.config.apiKey))
  => svc.outcome = IF svc.config.provider = Str(<<"sendgrid">>)
                     THEN Rejected("SendGrid API key is required")
                     ELSE Rejected("Mailchimp API key is required")

\* The provider handlers of EmailService.
EmailHandlers ==
  {"_sendWithSendGrid", "_sendWithMailchimp", "_sendWithSmtp", "_sendWithMockProvider"}

\* C29 (as claimed): no call of execute runs a provider handler of
\* EmailService on a config that lacks to or subject.
ValidationBeforeHandler ==
  \A k \in 1..Len(svc.invoked) :
    (svc.target = "email" /\ svc.invoked[k].name \in EmailHandlers)
      => ~(Absent(svc.config.to) \/ Absent(svc.config.subject))

\* The trace event that opened frame j.
OpenedBy(j) == trace[frames[j].act]

\* C24: while the successors of a node are processed (a processConnectedNodes
\* frame of the node is on the stack), the node has its entry in the context:
\* the seed of a Trigger, the entry of a Filter, the result of an executed
\* node; so whenever a node is executed or a filter evaluated, every node on
\* the path that led to it has an entry to resolve templates against. The
\* step that executes a node stores its result and only then calls
\* processConnectedNodes for it.
WriteBeforeSuccessors ==
  /\ [](\A j \in 1..Len(frames) :
          frames[j].node # "main" =>
            /\ frames[j].node \in DOMAIN context
            /\ OpenedBy(j).node = frames[j].node
            /\ OpenedBy(j).kind \in {"seed", "filter", "exec"})
  /\ [][(Len(frames') = Len(frames) + 1 /\ Len(frames) > 0) =>
          /\ Len(trace') = Len(trace) + 1
          /\ frames'[Len(frames')].node = LastEvent(trace').node
          /\ LastEvent(trace').node \in DOMAIN context'
          /\ frames'[Len(frames')].k = 0]_vars

\* C24 witness: a node executed from the frame of an executed node, which was
\* itself reached from a Trigger, is having its successors processed; the
\* three nodes of the path have their entries.
WriteBeforeSuccessorsWitness ==
  /\ Len(frames) = 4
  /\ OpenedBy(2).kind = "seed"
  /\ OpenedBy(3).kind = "exec"
  /\ OpenedBy(4).kind = "exec"
  /\ {frames[2].node, frames[3].node, frames[4].node} \subseteq DOMAIN context
  /\ Cardinality({frames[2].node, frames[3].node, frames[4].node}) = 3

\* C25 (as claimed): in a run (the edges of the model lead from a node to a
\* later one, so every graph is acyclic) each node is executed at most once:
\* no two events of the trace are executions of the same node.
ExecutedAtMostOnce ==
  \A p, q \in 1..Len(trace) :
    (/\ trace[p].kind \in {"exec", "threw"}
     /\ trace[q].kind \in {"exec", "threw"}
     /\ trace[p].node = trace[q].node)
    => p = q

\* C26 (as claimed): the path of every 'Circular reference detected' error
\* starts at a Trigger node, follows an edge from each listed node to the
\* next, and ends at a node that occurs earlier in it.
CyclePathsGenuine ==
  vw.pc = "done" =>
    \A k \in 1..Len(vw.errors) :
      vw.errors[k].kind = "Circular reference detected" =>
        LET path == vw.errors[k].path
        IN /\ Len(path) >= 2
           /\ \E n \in 1..Len(vw.nodes) :
                vw.nodes[n].id = path[1] /\ vw.nodes[n].type = "trigger"
           /\ \A i \in 1..(Len(path) - 1) :
                \E e \in 1..Len(vw.edges) :
                  vw.edges[e].source = path[i] /\ vw.edges[e].target = path[i + 1]
           /\ \E i \in 1..(Len(path) - 1) : path[i] = path[Len(path)]

\* The operators processConnectedNodes implements.
ImplementedOperators == {Str(<<"equals">>), Str(<<"greater_than">>), Str(<<"less_than">>)}

\* The node with this id is a Filter that passes validateNode and whose
\* operator is none of the implemented ones.
OtherOperatorFilter(id) ==
  /\ HasNode(id)
  /\ FindNode(id).type = "filter"
  /\ validateNode(FindNode(id)) = NoError
  /\ Cfg(FindNode(id), "operator") \notin ImplementedOperators

\* C27: every visit of a Filter node whose operator is not one of equals,
\* greater_than and less_than evaluates to true, whatever field and value
\* resolve to; the entry stored for it has result true, and, the run over,
\* every outgoing edge of the filter was handled from that visit.
UnimplementedOperatorPasses ==
  \A p \in 1..Len(trace) :
    (trace[p].kind = "filter" /\ OtherOperatorFilter(trace[p].node)) =>
      /\ trace[p].passed
      /\ trace[p].node \in DOMAIN context
      /\ context[trace[p].node].result = Bool(TRUE)
      /\ RunOver => HandledBy(p) = EdgesLeaving(trace[p].node)

\* C27 witness: the run over, the filter 'event contains refund' was visited
\* for the event 'order', its entry has result true, and the node behind it
\* was reached from that visit.
UnimplementedOperatorWitness ==
  /\ RunOver
  /\ \E p \in 1..Len(trace) :
       /\ trace[p].kind = "filter"
       /\ OtherOperatorFilter(trace[p].node)
       /\ Cfg(FindNode(trace[p].node), "operator") = Str(<<"contains">>)
       /\ context[trace[p].node].condition = Str(<<"order", " ", "contains", " ", "refund">>)
       /\ context[trace[p].node].result = Bool(TRUE)
       /\ \E q \in 1..Len(trace) : trace[q].act = p /\ trace[q].kind \in {"exec", "filter"}

\* ------------------------------------------------------------------------
\* The editor: adding and deleting nodes
\* ------------------------------------------------------------------------

\* The most nodes ever added in one session.
MaxAdds == 2

\* `${n}` for the lengths the node list can have.
IdText(n) == <<"1", "2", "3", "4", "5", "6", "7", "8", "9", "10", "11">>[n]

\* initialNodes and initialEdges, the default workflow the canvas starts
\* with; the configs of its nodes are not read by the editor.
InitialNodes ==
  << Node("1", "trigger", "Monthly Schedule", EmptyObject),
     Node("2", "flowControl", "For Each Friend", EmptyObject),
     Node("3", "filter", "Filter", EmptyObject),
     Node("4", "action", "Action", EmptyObject),
     Node("5", "action", "Action", EmptyObject),
     Node("6", "validation", "Validation", EmptyObject) >>

InitialEdges ==
  << [source |-> "1", target |-> "2"], [source |-> "2", target |-> "3"],
     [source |-> "3", target |-> "4"], [source |-> "4", target |-> "5"],
     [source |-> "5", target |-> "6"] >>

\* The node types dragged or clicked in the Node Library.
LibraryTypes == {"trigger", "action"}

\* nodeTypeDefinitions[type].label followed by ' Node'
LibraryLabel(type) == IF type = "trigger" THEN "Trigger Node" ELSE "Action Node"

\* The node onDrop and addNodeFromClick create for a list of n nodes.
NewNode(n, type) == Node(IdText(n + 1), type, LibraryLabel(type), EmptyObject)

InitEditor ==
  /\ ServicesAtRest
  /\ nodes = InitialNodes
  /\ edges = InitialEdges
  /\ logs = <<>>
  /\ dataContext = EmptyObject
  /\ isSimulating = FALSE
  /\ runState = "NotStarted"
  /\ context = EmptyObject
  /\ errors = <<>>
  /\ frames = <<>>
  /\ inflight = {}
  /\ trace = <<>>
  /\ runs = 0
  /\ rv = RvIdle

\* onDrop (a node type dragged from the Node Library to the canvas) and
\* addNodeFromClick (a click on it): the new node is appended and logged.
AddNode(type, how) ==
  /\ Len(logs) < MaxAdds
  /\ nodes' = Append(nodes, NewNode(Len(nodes), type))
  /\ logs' = Append(logs, <<"Added new ", type, " node", how>>)
  /\ UNCHANGED <<edges, dataContext, isSimulating, runState, context, errors,
                 frames, inflight, trace, runs, rv, callVars, webhookVars>>

\* The k-th node is selected and deleted: React Flow hands the removal of the
\* node to onNodesChange and that of its edges to onEdgesChange.
DeleteNode(k) ==
  /\ k \in 1..Len(nodes)
  /\ nodes' = SubSeq(nodes, 1, k - 1) \o SubSeq(nodes, k + 1, Len(nodes))
  /\ edges' = SelectSeq(edges, LAMBDA edge : edge.source # nodes[k].id
                                              /\ edge.target # nodes[k].id)
  /\ UNCHANGED <<logs, dataContext, isSimulating, runState, context, errors,
                 frames, inflight, trace, runs, rv, callVars, webhookVars>>

\* The positions a node can have in the list.
NodePositions == 1..(Len(InitialNodes) + MaxAdds)

NextEditor ==
  \/ \E type \in LibraryTypes : AddNode(type, "")
  \/ \E type \in LibraryTypes : AddNode(type, " via click")
  \/ \E k \in NodePositions : DeleteNode(k)

SpecEditor == InitEditor /\ [][NextEditor]_vars

\* C30 (as claimed): after any sequence of additions and deletions of nodes,
\* the nodes of the graph have pairwise distinct ids.
NodeIdsUnique ==
  \A i, j \in 1..Len(nodes) : i # j => nodes[i].id # nodes[j].id

====
